---------------------------- MODULE Spec2Model ----------------------------
(***************************************************************************)
(* Time-integration schemes, the Cauchy driver, the gravitational          *)
(* right-hand sides and the amplification factors of Mik-10/Am1-CN.        *)
(*                                                                         *)
(* float64 values are modelled by exact rationals <<n, d>> in lowest terms *)
(* (d > 0), extended with the IEEE non-finite values <<1, 0>> (+inf),      *)
(* <<-1, 0>> (-inf) and <<0, 0>> (NaN).  Rounding is not modelled.         *)
(***************************************************************************)
EXTENDS Integers, Sequences, FiniteSets, TLC

--------------------------------------------------------------------------
(* Rational arithmetic                                                     *)

Abs(n) == IF n < 0 THEN -n ELSE n

Sign(n) == IF n < 0 THEN -1 ELSE IF n = 0 THEN 0 ELSE 1

RECURSIVE GCD(_, _)
GCD(a, b) == IF b = 0 THEN a ELSE GCD(b, a % b)

Rat(n, d) ==
    IF d = 0 THEN <<Sign(n), 0>>
    ELSE LET g == GCD(Abs(n), Abs(d))
             s == Sign(d)
         IN  <<s * (n \div g), s * (d \div g)>>

R(n) == <<n, 1>>

NaN == <<0, 0>>

IsFinite(x) == x[2] # 0

IsNaN(x) == x = NaN

RNeg(x) == <<-x[1], x[2]>>

RAdd(x, y) ==
    IF IsFinite(x) /\ IsFinite(y)
    THEN LET g == GCD(x[2], y[2])
             l == (x[2] \div g) * y[2]
         IN  Rat(x[1] * (l \div x[2]) + y[1] * (l \div y[2]), l)
    ELSE IF IsNaN(x) \/ IsNaN(y) THEN NaN
    ELSE IF IsFinite(x) THEN y
    ELSE IF IsFinite(y) THEN x
    ELSE IF x = y THEN x ELSE NaN

RSub(x, y) == RAdd(x, RNeg(y))

RMul(x, y) ==
    IF IsFinite(x) /\ IsFinite(y)
    THEN LET g1 == GCD(Abs(x[1]), y[2])
             g2 == GCD(Abs(y[1]), x[2])
         IN  IF x[1] = 0 \/ y[1] = 0 THEN R(0)
             ELSE Rat((x[1] \div g1) * (y[1] \div g2),
                      (x[2] \div g2) * (y[2] \div g1))
    ELSE IF IsNaN(x) \/ IsNaN(y) THEN NaN
    ELSE IF x[1] = 0 \/ y[1] = 0 THEN NaN
    ELSE <<Sign(x[1]) * Sign(y[1]), 0>>

\* numpy float64 reciprocal: 1/0 = inf, 1/inf = 0, 1/NaN = NaN
RInv(y) ==
    IF IsNaN(y) THEN NaN
    ELSE IF ~IsFinite(y) THEN R(0)
    ELSE IF y[1] = 0 THEN <<1, 0>>
    ELSE Rat(y[2], y[1])

\* numpy float64 division: x/0 = +-inf, 0/0 = NaN (a warning, not an exception)
RDiv(x, y) == RMul(x, RInv(y))

RLt(x, y) ==
    /\ ~IsNaN(x) /\ ~IsNaN(y)
    /\ IF IsFinite(x) /\ IsFinite(y) THEN x[1] * y[2] < y[1] * x[2]
       ELSE IF IsFinite(x) THEN y[1] > 0
       ELSE IF IsFinite(y) THEN x[1] < 0
       ELSE x[1] < y[1]

RLe(x, y) == ~IsNaN(x) /\ ~IsNaN(y) /\ ~RLt(y, x)

\* Python int(): truncation toward zero
IntTrunc(x) == IF x[1] >= 0 THEN x[1] \div x[2] ELSE -((-x[1]) \div x[2])

\* mathematical floor
Floor(x) == x[1] \div x[2]

--------------------------------------------------------------------------
(* Vectors (numpy 1-D arrays), indexed from 1                              *)

\* a new array holding the values of u
Array(u) == SubSeq(u, 1, Len(u))

VAdd(u, v) == [k \in 1..Len(u) |-> RAdd(u[k], v[k])]

VScale(c, u) == [k \in 1..Len(u) |-> RMul(c, u[k])]

VZero(len) == [k \in 1..len |-> R(0)]

VFinite(u) == \A k \in 1..Len(u) : IsFinite(u[k])

--------------------------------------------------------------------------
(* Square roots and the gravitational right-hand sides (problems.py)       *)

\* largest k with k*k <= n, by bisection on lo..hi
RECURSIVE ISqrtIn(_, _, _)
ISqrtIn(n, lo, hi) ==
    IF lo >= hi THEN lo
    ELSE LET mid == (lo + hi + 1) \div 2
         IN  IF mid <= n \div mid THEN ISqrtIn(n, mid, hi) ELSE ISqrtIn(n, lo, mid - 1)

ISqrt(n) == ISqrtIn(n, 0, n)

\* np.sqrt of a non-negative value; defined where the root is rational
RSqrt(x) ==
    IF ~IsFinite(x) THEN x
    ELSE CHOOSE r \in {<<ISqrt(x[1]), ISqrt(x[2])>>} : RMul(r, r) = x

RPow3(x) == RMul(RMul(x, x), x)

\* r < 1e-10 for r = n/d, i.e. n * 10^10 < d, evaluated in two halves of
\* 10^5 so that no intermediate value leaves the machine integers
BelowThreshold(r) ==
    /\ IsFinite(r)
    /\ r[1] <= ((r[2] - 1) \div 100000) \div 100000

VSub(u, v) == [k \in 1..Len(u) |-> RSub(u[k], v[k])]

VDiv(u, c) == [k \in 1..Len(u) |-> RDiv(u[k], c)]

\* np.linalg.norm
Norm(u) ==
    LET RECURSIVE SumSq(_)
        SumSq(k) == IF k = 0 THEN R(0) ELSE RAdd(SumSq(k - 1), RMul(u[k], u[k]))
    IN  RSqrt(SumSq(Len(u)))

\* kepler_rhs(U, t, mu)
kepler_rhs(U, t, mu) ==
    LET x  == U[1]
        y  == U[2]
        vx == U[3]
        vy == U[4]
        r  == RSqrt(RAdd(RMul(x, x), RMul(y, y)))
    IN  IF BelowThreshold(r)
        THEN <<vx, vy, R(0), R(0)>>
        ELSE <<vx, vy,
               RDiv(RMul(RNeg(mu), x), RPow3(r)),
               RDiv(RMul(RNeg(mu), y), RPow3(r))>>

\* arenstorf_rhs(U, t, mu)
arenstorf_rhs(U, t, mu) ==
    LET x  == U[1]
        y  == U[2]
        vx == U[3]
        vy == U[4]
        xm == RAdd(x, mu)
        xp == RAdd(RSub(x, R(1)), mu)
        m1 == RSub(R(1), mu)
        D1 == RPow3(RSqrt(RAdd(RMul(xm, xm), RMul(y, y))))
        D2 == RPow3(RSqrt(RAdd(RMul(xp, xp), RMul(y, y))))
        ax == RSub(RSub(RAdd(x, RMul(R(2), vy)), RDiv(RMul(m1, xm), D1)),
                   RDiv(RMul(mu, xp), D2))
        ay == RSub(RSub(RSub(y, RMul(R(2), vx)), RDiv(RMul(m1, y), D1)),
                   RDiv(RMul(mu, y), D2))
    IN  <<vx, vy, ax, ay>>

\* crtbp_rhs(U, t, mu)
crtbp_rhs(U, t, mu) ==
    LET x  == U[1]
        y  == U[2]
        vx == U[3]
        vy == U[4]
        xm == RAdd(x, mu)
        xp == RAdd(RSub(x, R(1)), mu)
        m1 == RSub(R(1), mu)
        r1 == RSqrt(RAdd(RMul(xm, xm), RMul(y, y)))
        r2 == RSqrt(RAdd(RMul(xp, xp), RMul(y, y)))
        ax == RSub(RSub(RAdd(RMul(R(2), vy), x), RDiv(RMul(m1, xm), RPow3(r1))),
                   RDiv(RMul(mu, xp), RPow3(r2)))
        ay == RSub(RSub(RAdd(RMul(R(-2), vx), y), RDiv(RMul(m1, y), RPow3(r1))),
                   RDiv(RMul(mu, y), RPow3(r2)))
    IN  <<vx, vy, ax, ay>>

\* pos = U[:3*N].reshape((N, 3)), bodies numbered from 0
BodyPos(U, N) == [b \in 0..(N - 1) |-> <<U[3 * b + 1], U[3 * b + 2], U[3 * b + 3]>>]

\* vel = U[3*N:].reshape((N, 3))
BodyVel(U, N) ==
    [b \in 0..(N - 1) |-> <<U[3 * N + 3 * b + 1], U[3 * N + 3 * b + 2], U[3 * N + 3 * b + 3]>>]

\* the pull of body j on body i weighted with the mass of the pulled body
PairTerm_own_mass(pos, masses, G, b, j) ==
    LET r_ij == VSub(pos[b], pos[j])
        dist == Norm(r_ij)
    IN  IF b = j \/ BelowThreshold(dist)
        THEN VZero(3)
        ELSE VDiv(VScale(RMul(RNeg(G), masses[b + 1]), r_ij), RPow3(dist))

\* what one pass of the inner loop adds to acc[i] (lines 458-468)
PairTerm(pos, masses, G, b, j) ==
    LET r_ij == VSub(pos[b], pos[j])
        dist == Norm(r_ij)
    IN  IF b = j \/ BelowThreshold(dist)
        THEN VZero(3)
        ELSE VDiv(VScale(RMul(RNeg(G), masses[j + 1]), r_ij), RPow3(dist))

\* acc[i] after the inner loop ran over j = 0..N-1
BodyAcc(pos, masses, G, b) ==
    LET RECURSIVE Upto(_)
        Upto(j) == IF j < 0 THEN VZero(3)
                   ELSE VAdd(Upto(j - 1), PairTerm(pos, masses, G, b, j))
    IN  Upto(Len(masses) - 1)

\* nbody_rhs on the layout of its docstring: [x, y, z, vx, vy, vz] per body
nbody_rhs_interleaved(U, t, masses, G) ==
    LET N   == Len(masses)
        pos == [b \in 0..(N - 1) |-> <<U[6 * b + 1], U[6 * b + 2], U[6 * b + 3]>>]
        acc == [b \in 0..(N - 1) |-> BodyAcc(pos, masses, G, b)]
    IN  [k \in 1..Len(U) |->
            IF (k - 1) % 6 < 3 THEN U[k + 3]
            ELSE acc[(k - 1) \div 6][((k - 1) % 3) + 1]]

\* nbody_rhs(U, t, masses, G)
nbody_rhs(U, t, masses, G) ==
    LET N   == Len(masses)
        pos == BodyPos(U, N)
        acc == [b \in 0..(N - 1) |-> BodyAcc(pos, masses, G, b)]
    IN  [k \in 1..Len(U) |->
            IF k <= 3 * N THEN U[3 * N + k]
            ELSE acc[(k - 3 * N - 1) \div 3][((k - 3 * N - 1) % 3) + 1]]

--------------------------------------------------------------------------
(* Complex numbers <<re, im>> and the amplification factors (Stability.py) *)

C(re, im) == <<re, im>>

COne == C(R(1), R(0))

CAdd(x, y) == C(RAdd(x[1], y[1]), RAdd(x[2], y[2]))

CSub(x, y) == C(RSub(x[1], y[1]), RSub(x[2], y[2]))

CMul(x, y) ==
    C(RSub(RMul(x[1], y[1]), RMul(x[2], y[2])),
      RAdd(RMul(x[1], y[2]), RMul(x[2], y[1])))

\* z / n for a real number n
CDivReal(x, n) == C(RDiv(x[1], R(n)), RDiv(x[2], R(n)))

\* re^2 + im^2; as np.abs, infinite when a component is
AbsSq(x) ==
    IF x[1] \in {<<1, 0>>, <<-1, 0>>} \/ x[2] \in {<<1, 0>>, <<-1, 0>>}
    THEN <<1, 0>>
    ELSE RAdd(RMul(x[1], x[1]), RMul(x[2], x[2]))

\* complex128 division; a zero divisor gives the components x.re/0, x.im/0
CDiv(x, y) ==
    IF y = C(R(0), R(0))
    THEN C(RDiv(x[1], R(0)), RDiv(x[2], R(0)))
    ELSE LET d == AbsSq(y)
         IN  C(RDiv(RAdd(RMul(x[1], y[1]), RMul(x[2], y[2])), d),
               RDiv(RSub(RMul(x[2], y[1]), RMul(x[1], y[2])), d))

\* np.abs of a complex value; defined where the modulus is rational
CAbs(x) == RSqrt(AbsSq(x))

\* np.abs(x) <= 1, decided on the squares (the square root is monotone)
AbsLe1(x) == RLe(AbsSq(x), R(1))

\* np.abs(x) < 1
AbsLt1(x) == RLt(AbsSq(x), R(1))

\* np.sqrt of a complex value, principal branch; defined where it is rational
CSqrt(w) ==
    LET m == CAbs(w)
        p == RSqrt(RDiv(RAdd(m, w[1]), R(2)))
        q == RSqrt(RDiv(RSub(m, w[1]), R(2)))
    IN  C(p, IF RLt(w[2], R(0)) THEN RNeg(q) ELSE q)

G_euler(z) == CAdd(COne, z)

G_inverse_euler(z) == CDiv(COne, CSub(COne, z))

G_crank_nicolson(z) ==
    CDiv(CAdd(COne, CDivReal(z, 2)), CSub(COne, CDivReal(z, 2)))

\* G_rk4 without its term of fourth order
G_rk4_third(z) ==
    LET z2 == CMul(z, z)
        z3 == CMul(z2, z)
    IN  CAdd(CAdd(CAdd(COne, z), CDivReal(z2, 2)), CDivReal(z3, 6))

G_rk4(z) ==
    LET z2 == CMul(z, z)
        z3 == CMul(z2, z)
        z4 == CMul(z3, z)
    IN  CAdd(CAdd(CAdd(CAdd(COne, z), CDivReal(z2, 2)), CDivReal(z3, 6)),
             CDivReal(z4, 24))

\* root = np.sqrt(z**2 + 1); r1 = z + root; r2 = z - root
LeapfrogRoots(z) ==
    LET root == CSqrt(CAdd(CMul(z, z), COne))
    IN  <<CAdd(z, root), CSub(z, root)>>

\* stable_leapfrog with the boundary left out
stable_leapfrog_strict(z) ==
    LET r == LeapfrogRoots(z) IN AbsLt1(r[1]) /\ AbsLt1(r[2])

stable_leapfrog(z) ==
    LET r == LeapfrogRoots(z) IN AbsLe1(r[1]) /\ AbsLe1(r[2])

--------------------------------------------------------------------------
(* Right-hand sides handed to the driver                                   *)

\* oscillator_rhs with omega = 1: dU/dt = [v, -omega^2 x]
\* E = (1/2)(v^2 + omega^2*x^2), omega = 1
oscillator_energy(U) ==
    RMul(Rat(1, 2), RAdd(RMul(U[2], U[2]), RMul(U[1], U[1])))

oscillator_rhs(U, t) == <<U[2], RNeg(RMul(R(1), U[1]))>>

\* a time-dependent right-hand side (forced oscillator): dU/dt = [v, t - x]
forced_rhs(U, t) == <<U[2], RSub(t, U[1])>>

\* a right-hand side of the caller's with an unstable node: dU/dt = U
linear_rhs(U, t) == U

\* vanderpol_rhs with mu = 1: dU/dt = [v, mu*(1 - x^2)*v - x]
vanderpol_rhs(U, t) ==
    <<U[2], RSub(RMul(RMul(R(1), RSub(R(1), RMul(U[1], U[1]))), U[2]), U[1])>>

\* a linear right-hand side of the caller's: F(U, t) = A @ U, A given by rows
RECURSIVE Dot(_, _, _)
Dot(a, u, k) == IF k = 0 THEN R(0) ELSE RAdd(Dot(a, u, k - 1), RMul(a[k], u[k]))

matrix_rhs(U, t, A) == [i \in 1..Len(A) |-> Dot(A[i], U, Len(U))]

\* F(U, t); the N-body F is the closure of simulate_nbody over masses and G
FApply(f, U, t) ==
    CASE f.name = "oscillator_rhs" -> oscillator_rhs(U, t)
      [] f.name = "forced_rhs"     -> forced_rhs(U, t)
      [] f.name = "linear_rhs"     -> linear_rhs(U, t)
      [] f.name = "vanderpol_rhs"  -> vanderpol_rhs(U, t)
      [] f.name = "matrix_rhs"     -> matrix_rhs(U, t, f.A)
      [] f.name = "nbody_rhs"      -> nbody_rhs(U, t, f.masses, f.G)

--------------------------------------------------------------------------
(* float64 values kept to seven decimals, for the coefficients of RK89     *)

RECURSIVE DecDigits(_, _, _, _)
\* the integer part acc and k more decimals of r/d, rounded down
DecDigits(acc, r, d, k) ==
    IF k = 0 THEN acc
    ELSE DecDigits(10 * acc + (10 * r) \div d, (10 * r) % d, d, k - 1)

\* floor(x * 10^7)
ToDec(x) ==
    IF 10000000 % x[2] = 0 THEN x[1] * (10000000 \div x[2])
    ELSE DecDigits(x[1] \div x[2], x[1] % x[2], x[2], 7)

\* the value with the decimals n, in lowest terms
D(n) ==
    LET a == CHOOSE k \in 0..7 : n % (2 ^ k) = 0 /\ (k = 7 \/ n % (2 ^ (k + 1)) # 0)
        b == CHOOSE k \in 0..7 : n % (5 ^ k) = 0 /\ (k = 7 \/ n % (5 ^ (k + 1)) # 0)
        g == (2 ^ a) * (5 ^ b)
    IN  <<n \div g, 10000000 \div g>>

\* the decimals of the quotient n/d of two literals
Q(n, d) == DecDigits(n \div d, n % d, d, 7)

\* X*Y/10^7 on magnitudes, by halves of four digits
DecMulAbs(X, Y) ==
    LET xh == X \div 10000
        xl == X % 10000
        yh == Y \div 10000
        yl == Y % 10000
    IN  10 * xh * yh + (xh * yl + xl * yh) \div 1000 + (xl * yl) \div 10000000

\* float64 product of two values given by their decimals
DMul(X, Y) == Sign(X) * Sign(Y) * DecMulAbs(Abs(X), Abs(Y))

\* the decimals of an ndarray, and the ndarray with given decimals
DVec(u) == Array([k \in 1..Len(u) |-> ToDec(u[k])])

RVec(X) == Array([k \in 1..Len(X) |-> D(X[k])])

--------------------------------------------------------------------------
(* Scheme library                                                          *)

\* Euler with the slope taken at the end of the step
Euler_late(U, t, h, f) == VAdd(U, VScale(h, FApply(f, U, RAdd(t, h))))

Euler(U, t, h, f) == VAdd(U, VScale(h, FApply(f, U, t)))

RK4(U, t, h, f) ==
    LET h2 == RDiv(h, R(2))
        k1 == FApply(f, U, t)
        k2 == FApply(f, VAdd(U, VScale(h2, k1)), RAdd(t, h2))
        k3 == FApply(f, VAdd(U, VScale(h2, k2)), RAdd(t, h2))
        k4 == FApply(f, VAdd(U, VScale(h, k3)), RAdd(t, h))
    IN  VAdd(U, VScale(RDiv(h, R(6)),
             VAdd(VAdd(k1, VScale(R(2), k2)), VAdd(VScale(R(2), k3), k4))))

\* the coefficients of the stages: row n weighs k1..k(n-1) in the argument of kn
RK89_a ==
    <<<<>>,
      <<Q(1, 18)>>,
      <<Q(1, 48), Q(1, 16)>>,
      <<Q(1, 32), Q(3, 32), 0>>,
      <<Q(5, 16), Q(-75, 64), Q(75, 64), 0>>,
      <<Q(3, 80), 0, 0, Q(3, 16), Q(3, 20)>>,
      <<479101, 0, 1122487, -255057, 128468, Q(1518, 234375)>>,
      <<169179, 0, Q(61564180, 158732637), 359773, 1969702, -1727139, 690957>>,
      <<690957, 0, -6342480, -1611976, 1386503, 9409286, 2116363, 0>>,
      <<1835569, 0, -24687681, -2912869, -264731, 28478387, 2813873, 1237448, 0>>,
      <<-12154249, 0, 166726086, 9157418, -60566059, -160035736, 148493030, -133715758, 51341826, 0>>,
      <<2588609, 0, -47744858, -4350931, -30494834, 55779200, 61558315, -50621046, 21939261, 1346279, 0>>,
      <<8224275, 0, -116586733, -7576222, 7139735, 120757749, -21276592, 19901662, -2342865, 1758985, 0, 0>>>>

\* the nodes c
RK89_c ==
    <<0, Q(1, 18), Q(1, 12), Q(1, 8), Q(5, 16), Q(3, 8), Q(59, 400), Q(93, 200), 5648654, Q(13, 20), 9246562, Q(1, 1), Q(1, 1)>>

\* the weights b8
RK89_b8 ==
    <<417474, 0, 0, 0, 0, -554524, 2393128, 7035106, -7597597, 6605630, 1581874, -2381096, Q(1, 4)>>

\* w[1]*k1[j] + ... + w[m]*km[j]
RECURSIVE RK89_comb(_, _, _, _)
RK89_comb(w, K, j, m) ==
    IF m = 0 THEN 0 ELSE RK89_comb(w, K, j, m - 1) + DMul(w[m], K[m][j])

\* the stages after K: k(n) = F(U + dt*(a[n][1]*k1 + ...), t + dt*c[n])
RECURSIVE RK89_stages(_, _, _, _, _)
RK89_stages(K, X, H, t, f) ==
    LET n == Len(K) + 1
        arg == RVec([j \in 1..Len(X) |-> X[j] + DMul(H, RK89_comb(RK89_a[n], K, j, n - 1))])
        kn == DVec(FApply(f, arg, RAdd(t, D(DMul(H, RK89_c[n])))))
    IN  IF n > 13 THEN K ELSE RK89_stages(Append(K, kn), X, H, t, f)

\* RK89 with the coefficients of the source; those whose numerator or
\* denominator does not fit 32-bit integers are written by their
\* first seven decimals, D(479101) for 29443841/614563906
RK89(U, t, h, f) ==
    LET X == DVec(U)
        H == ToDec(h)
        K == RK89_stages(<<DVec(FApply(f, U, t))>>, X, H, t, f)
    IN  RVec([j \in 1..Len(X) |-> X[j] + DMul(H, RK89_comb(RK89_b8, K, j, 13))])

\* Leap_Frog with the current and the previous state exchanged
Leap_Frog_swapped(U, U_prev, t, h, f) ==
    VAdd(U, VScale(RMul(R(2), h), FApply(f, U_prev, t)))

Leap_Frog(U, U_prev, t, h, f) == VAdd(U_prev, VScale(RMul(R(2), h), FApply(f, U, t)))

\* scipy.optimize.fsolve(func, x0) on a residual of two components: the
\* residual at the seed, a forward-difference Jacobian and the Newton iterate,
\* which is the root of an affine residual.  ier = 1 is convergence; with a
\* singular Jacobian the iteration makes no progress, MINPACK reports ier = 5
\* and fsolve hands back the point it holds with a RuntimeWarning.
fsolve(func(_), x0) ==
    LET r0 == func(x0)
        c1 == VSub(func(<<RAdd(x0[1], R(1)), x0[2]>>), r0)
        c2 == VSub(func(<<x0[1], RAdd(x0[2], R(1))>>), r0)
        det == RSub(RMul(c1[1], c2[2]), RMul(c2[1], c1[2]))
        d1 == RDiv(RSub(RMul(c2[1], r0[2]), RMul(c2[2], r0[1])), det)
        d2 == RDiv(RSub(RMul(c1[2], r0[1]), RMul(c1[1], r0[2])), det)
        x1 == <<RAdd(x0[1], d1), RAdd(x0[2], d2)>>
    IN  IF r0 = VZero(2) THEN [x |-> x0, ier |-> 1]
        ELSE IF det = R(0) THEN [x |-> x0, ier |-> 5]
        ELSE [x |-> x1, ier |-> IF func(x1) = VZero(2) THEN 1 ELSE 5]

\* fsolve(residual, U_next_guess) in Crank_Nicolson: the point and the status
Crank_Nicolson_fsolve(U, t, h, f) ==
    LET residual(U_next) ==
            VSub(VSub(U_next, U),
                 VScale(RDiv(h, R(2)),
                        VAdd(FApply(f, U, t), FApply(f, U_next, RAdd(t, h)))))
        U_next_guess == VAdd(U, VScale(h, FApply(f, U, t)))
    IN  fsolve(residual, U_next_guess)

Crank_Nicolson(U, t, h, f) == Crank_Nicolson_fsolve(U, t, h, f).x

\* fsolve(residual, U_next_guess) in Inverse_Euler: the point and the status
Inverse_Euler_fsolve(U, t, h, f) ==
    LET residual(U_next) ==
            VSub(VSub(U_next, U), VScale(h, FApply(f, U_next, RAdd(t, h))))
        U_next_guess == VAdd(U, VScale(h, FApply(f, U, t)))
    IN  fsolve(residual, U_next_guess)

\* Inverse_Euler with the slope taken at the start of the step
Inverse_Euler_explicit(U, t, h, f) ==
    LET residual(U_next) == VSub(VSub(U_next, U), VScale(h, FApply(f, U, t)))
        U_next_guess == VAdd(U, VScale(h, FApply(f, U, t)))
    IN  fsolve(residual, U_next_guess).x

Inverse_Euler(U, t, h, f) == Inverse_Euler_fsolve(U, t, h, f).x

ImplicitSchemes == {"Inverse_Euler", "Crank_Nicolson"}

OneStepSchemes == {"Euler", "RK4"}

Schemes == OneStepSchemes \cup {"Leap_Frog"}

\* positional parameters of each scheme function
Arity(s) == IF s = "Leap_Frog" THEN 5 ELSE 4

\* F evaluations made by one call of the scheme
\* (an implicit scheme: one for the seed, then the residual at the seed, on
\* the two columns of the Jacobian and at the iterate)
Evals(s) ==
    CASE s = "RK4" -> 4
      [] s = "Inverse_Euler" -> 5
      [] s = "Crank_Nicolson" -> 9
      [] s = "RK89" -> 13
      [] OTHER -> 1

CallOneStep(s, U, t, h, f) ==
    CASE s = "Euler" -> Euler(U, t, h, f)
      [] s = "RK4"   -> RK4(U, t, h, f)
      [] s = "Inverse_Euler"  -> Inverse_Euler(U, t, h, f)
      [] s = "Crank_Nicolson" -> Crank_Nicolson(U, t, h, f)
      [] s = "RK89"  -> RK89(U, t, h, f)

--------------------------------------------------------------------------
(* Cauchy driver: integrate_cauchy(scheme, U0, t_span, dt, F, **kwargs)    *)

VARIABLES
    scheme,       \* the scheme function handed in
    U0,           \* initial condition
    t_span,       \* <<t_initial, t_final>>
    dt,           \* step handed in
    F,            \* right-hand side handed in
    is_leapfrog,  \* kwargs.get('is_leapfrog', False)
    n_steps,      \* number of trajectory points
    t_array,      \* [0..n_steps-1 -> time]
    U_array,      \* [0..n_steps-1 -> state]
    i,            \* loop index
    pc,           \* position in integrate_cauchy
    error,        \* exception that ended the call, "" if none
    calls,        \* scheme calls whose body ran, in order
    rhs_evals     \* number of evaluations of F so far

cauchy_vars == <<scheme, U0, t_span, dt, F, is_leapfrog, n_steps, t_array,
                 U_array, i, pc, error, calls, rhs_evals>>

cauchy_inputs == <<scheme, U0, t_span, dt, F, is_leapfrog>>

\* direct calls of the gravitational right-hand sides
VARIABLES
    rhs_pc,    \* "call" before the function ran, "done" after
    rhs_call,  \* the function and its arguments
    rhs_out    \* the returned derivative

rhs_vars == <<rhs_pc, rhs_call, rhs_out>>

\* evaluations of the amplification factors
VARIABLES
    stab_pc,    \* "call" before the function ran, "done" after
    stab_call,  \* the function and its argument z
    stab_out    \* the returned value

stab_vars == <<stab_pc, stab_call, stab_out>>

\* calls of the analysis functions (convergence_rate, ...)
VARIABLES
    lib_pc,     \* "call" before the function ran, its position in between, "done" after
    lib_call,   \* the function and its arguments
    lib_loc,    \* its local variables while it runs
    lib_out     \* what it returned

lib_vars == <<lib_pc, lib_call, lib_loc, lib_out>>

\* an InterplanetaryMission object (its attributes) and the calls made on it
VARIABLES self, history

mission_vars == <<self, history>>

\* the files the setup works on and the calls of the setup functions
VARIABLES fs, setup_calls

setup_vars == <<fs, setup_calls>>

\* the session of the mission tab: session state, the buttons that are True in the script run, the place of the script, the clicks
VARIABLES session_state, triggers, gui_pc, gui_log

gui_vars == <<session_state, triggers, gui_pc, gui_log>>

\* what a step of integrate_cauchy leaves alone
cauchy_frame == <<rhs_vars, stab_vars, lib_vars, mission_vars, setup_vars, gui_vars>>

\* what a right-hand-side call leaves alone
rhs_frame == <<cauchy_vars, stab_vars, lib_vars, mission_vars, setup_vars, gui_vars>>

\* what an evaluation of an amplification factor leaves alone
stab_frame == <<cauchy_vars, rhs_vars, lib_vars, mission_vars, setup_vars, gui_vars>>

\* what a call of an analysis function leaves alone
lib_frame == <<cauchy_vars, rhs_vars, stab_vars, mission_vars, setup_vars, gui_vars>>

\* what a method of the mission object leaves alone
mission_frame == <<cauchy_vars, rhs_vars, stab_vars, lib_vars, setup_vars, gui_vars>>

\* what a setup function leaves alone
setup_frame == <<cauchy_vars, rhs_vars, stab_vars, lib_vars, mission_vars, gui_vars>>

\* what the mission tab leaves alone
gui_frame == <<cauchy_vars, rhs_vars, stab_vars, lib_vars, mission_vars, setup_vars>>

\* largest time value of the enumerated spans
MaxT == 3

TimeValues == {R(k) : k \in 0..MaxT}

DtValues == {R(-1), R(0), R(1), R(2), Rat(3, 2)}

U0Values == {<<R(1), R(0)>>, <<R(0), R(1)>>, <<R(2), R(-1)>>}

RhsSet == {[name |-> "oscillator_rhs"], [name |-> "forced_rhs"]}

\* n_steps without the point of the initial condition
NSteps_short(t_initial, t_final, h) == IntTrunc(RDiv(RSub(t_final, t_initial), h))

\* n_steps = int((t_final - t_initial) / dt) + 1
NSteps(t_initial, t_final, h) == IntTrunc(RDiv(RSub(t_final, t_initial), h)) + 1

\* np.linspace(start, stop, num), num >= 1, endpoint included
linspace(start, stop, num) ==
    [k \in 0..(num - 1) |->
        IF num = 1 THEN start
        ELSE RAdd(start, RMul(R(k), RDiv(RSub(stop, start), R(num - 1))))]

Raise(exc) ==
    /\ pc' = "raised"
    /\ error' = exc

CauchyInit ==
    /\ scheme \in Schemes
    /\ U0 \in U0Values
    /\ t_span \in TimeValues \X TimeValues
    /\ dt \in DtValues
    /\ F \in RhsSet
    /\ is_leapfrog \in BOOLEAN
    /\ n_steps = 0
    /\ t_array = <<>>
    /\ U_array = <<>>
    /\ i = 0
    /\ pc = "setup"
    /\ error = ""
    /\ calls = <<>>
    /\ rhs_evals = 0

\* lines 192-199: grid, buffer, initial condition, mode
Setup ==
    /\ pc = "setup"
    /\ UNCHANGED cauchy_frame
    /\ UNCHANGED <<cauchy_inputs, calls, rhs_evals, i>>
    /\ IF dt = R(0)
       THEN Raise("ZeroDivisionError") /\ UNCHANGED <<n_steps, t_array, U_array>>
       ELSE LET n == NSteps(t_span[1], t_span[2], dt) IN
            /\ n_steps' = n
            /\ IF n < 0
               THEN \* np.linspace: number of samples must be non-negative
                    Raise("ValueError") /\ UNCHANGED <<t_array, U_array>>
               ELSE IF n = 0
               THEN \* U_array[0, :] = U0 on a buffer without rows
                    Raise("IndexError") /\ UNCHANGED <<t_array, U_array>>
               ELSE /\ t_array' = linspace(t_span[1], t_span[2], n)
                    /\ U_array' = [k \in 0..(n - 1) |->
                                     IF k = 0 THEN U0 ELSE VZero(Len(U0))]
                    /\ pc' = IF is_leapfrog THEN "bootstrap" ELSE "loop"
                    /\ error' = error

\* line 203: U_array[1, :] = Euler(U_array[0, :], t_array[0], dt, F)
Bootstrap ==
    /\ pc = "bootstrap"
    /\ UNCHANGED cauchy_frame
    /\ calls' = Append(calls, [fn |-> "Euler", U |-> U_array[0], t |-> t_array[0]])
    /\ rhs_evals' = rhs_evals + Evals("Euler")
    /\ UNCHANGED <<cauchy_inputs, n_steps, t_array>>
    /\ IF n_steps < 2
       THEN \* row 1 does not exist: the assignment fails after Euler returned
            Raise("IndexError") /\ UNCHANGED <<U_array, i>>
       ELSE /\ U_array' = [U_array EXCEPT ![1] = Euler(U_array[0], t_array[0], dt, F)]
            /\ i' = 1
            /\ pc' = "leapfrog"
            /\ error' = error

\* lines 206-208: one pass of the two-step loop
LeapFrogStep ==
    /\ pc = "leapfrog"
    /\ UNCHANGED cauchy_frame
    /\ i < n_steps - 1
    /\ UNCHANGED <<cauchy_inputs, n_steps, t_array>>
    /\ IF Arity(scheme) # 5
       THEN \* five positional arguments given to a four-parameter function
            Raise("TypeError") /\ UNCHANGED <<U_array, i, calls, rhs_evals>>
       ELSE /\ U_array' = [U_array EXCEPT ![i + 1] =
                              Leap_Frog(U_array[i], U_array[i - 1], t_array[i], dt, F)]
            /\ calls' = Append(calls, [fn |-> scheme, U |-> U_array[i],
                                       U_prev |-> U_array[i - 1], t |-> t_array[i]])
            /\ rhs_evals' = rhs_evals + Evals(scheme)
            /\ i' = i + 1
            /\ UNCHANGED <<pc, error>>

\* the one-step loop restarting every call from the initial condition
OneStepStep_restart ==
    /\ pc = "loop"
    /\ UNCHANGED cauchy_frame
    /\ i < n_steps - 1
    /\ UNCHANGED <<cauchy_inputs, n_steps, t_array>>
    /\ IF Arity(scheme) # 4
       THEN Raise("TypeError") /\ UNCHANGED <<U_array, i, calls, rhs_evals>>
       ELSE /\ U_array' = [U_array EXCEPT ![i + 1] =
                              CallOneStep(scheme, U_array[0], t_array[i], dt, F)]
            /\ calls' = Append(calls, [fn |-> scheme, U |-> U_array[0], t |-> t_array[i]])
            /\ rhs_evals' = rhs_evals + Evals(scheme)
            /\ i' = i + 1
            /\ UNCHANGED <<pc, error>>

\* the one-step loop with a scheme that updates its argument in place
OneStepStep_inplace ==
    /\ pc = "loop"
    /\ UNCHANGED cauchy_frame
    /\ i < n_steps - 1
    /\ UNCHANGED <<cauchy_inputs, n_steps, t_array>>
    /\ IF Arity(scheme) # 4
       THEN Raise("TypeError") /\ UNCHANGED <<U_array, i, calls, rhs_evals>>
       ELSE LET new == CallOneStep(scheme, U_array[i], t_array[i], dt, F) IN
            /\ U_array' = [U_array EXCEPT ![i] = new, ![i + 1] = new]
            /\ calls' = Append(calls, [fn |-> scheme, U |-> U_array[i], t |-> t_array[i]])
            /\ rhs_evals' = rhs_evals + Evals(scheme)
            /\ i' = i + 1
            /\ UNCHANGED <<pc, error>>

\* lines 211-212: one pass of the one-step loop
OneStepStep ==
    /\ pc = "loop"
    /\ UNCHANGED cauchy_frame
    /\ i < n_steps - 1
    /\ UNCHANGED <<cauchy_inputs, n_steps, t_array>>
    /\ IF Arity(scheme) # 4
       THEN \* four positional arguments given to Leap_Frog: F is missing
            Raise("TypeError") /\ UNCHANGED <<U_array, i, calls, rhs_evals>>
       ELSE /\ U_array' = [U_array EXCEPT ![i + 1] =
                              CallOneStep(scheme, U_array[i], t_array[i], dt, F)]
            /\ calls' = Append(calls, [fn |-> scheme, U |-> U_array[i], t |-> t_array[i]])
            /\ rhs_evals' = rhs_evals + Evals(scheme)
            /\ i' = i + 1
            /\ UNCHANGED <<pc, error>>

\* line 214: return t_array, U_array
Return ==
    /\ pc \in {"leapfrog", "loop"}
    /\ UNCHANGED cauchy_frame
    /\ i >= n_steps - 1
    /\ pc' = "returned"
    /\ UNCHANGED <<cauchy_inputs, n_steps, t_array, U_array, i, error, calls, rhs_evals>>

CauchyNext == Setup \/ Bootstrap \/ LeapFrogStep \/ OneStepStep \/ Return

\* no call of integrate_cauchy in progress
CauchyIdle ==
    /\ scheme = "none" /\ U0 = <<>> /\ t_span = <<>> /\ dt = R(0)
    /\ F = [name |-> "none"] /\ is_leapfrog = FALSE
    /\ n_steps = 0 /\ t_array = <<>> /\ U_array = <<>> /\ i = 0
    /\ pc = "idle" /\ error = "" /\ calls = <<>> /\ rhs_evals = 0

--------------------------------------------------------------------------
(* Direct calls of the gravitational right-hand sides                      *)

RhsIdle == rhs_pc = "idle" /\ rhs_call = [fn |-> "none"] /\ rhs_out = <<>>

Velocities == {<<R(0), R(0)>>, <<R(1), R(-2)>>}

\* plane points whose distance to the origin is rational
KeplerPoints ==
    {<<R(0), R(0)>>, <<R(1), R(0)>>, <<R(0), R(-2)>>, <<R(3), R(4)>>,
     <<Rat(-3, 5), Rat(4, 5)>>, <<Rat(5, 12), R(-1)>>}

KeplerCalls ==
    {[fn |-> "kepler_rhs", U |-> <<p[1], p[2], v[1], v[2]>>, mu |-> m] :
        p \in KeplerPoints, v \in Velocities, m \in {R(1), R(2)}}

\* <<mu, x, y>> with rational distances to both primaries (-mu, 0), (1-mu, 0)
RotatingPoints ==
    {<<Rat(1, 2), Rat(-1, 2), R(0)>>, <<Rat(1, 2), Rat(1, 2), R(0)>>,
     <<Rat(1, 2), R(0), R(0)>>, <<Rat(1, 2), R(0), Rat(6, 5)>>,
     <<Rat(1, 2), R(0), Rat(-3, 8)>>, <<Rat(1, 2), R(2), R(0)>>,
     <<Rat(1, 4), Rat(-1, 4), R(0)>>, <<Rat(1, 4), Rat(3, 4), R(0)>>,
     <<Rat(1, 4), Rat(-1, 4), Rat(3, 4)>>, <<Rat(1, 4), Rat(3, 4), Rat(-4, 3)>>,
     <<Rat(1, 4), R(-1), R(0)>>, <<Rat(1, 4), R(1), R(0)>>}

RotatingCalls ==
    {[fn |-> f, U |-> <<p[2], p[3], v[1], v[2]>>, mu |-> p[1]] :
        f \in {"crtbp_rhs", "arenstorf_rhs"}, p \in RotatingPoints, v \in Velocities}

\* positions of N bodies, [positions..., velocities...] layout, with rational
\* pair distances; some configurations hold coincident bodies
Positions2 ==
    {<<R(0), R(0), R(0), R(0), R(0), R(0)>>,
     <<R(0), R(0), R(0), R(3), R(4), R(0)>>,
     <<R(1), R(1), R(1), R(1), R(1), R(3)>>,
     <<R(1), R(0), R(-1), R(2), R(2), R(1)>>,
     <<R(-1), R(0), R(0), R(2), R(0), R(0)>>}

Positions3 ==
    {<<R(0), R(0), R(0), R(1), R(0), R(0), R(3), R(0), R(0)>>,
     <<R(0), R(0), R(0), R(0), R(0), R(0), R(2), R(0), R(0)>>,
     <<R(0), R(0), R(0), R(3), R(0), R(0), R(0), R(4), R(0)>>,
     <<R(1), R(1), R(1), R(1), R(1), R(1), R(1), R(1), R(1)>>}

Velocities2 ==
    {<<R(0), R(0), R(0), R(0), R(0), R(0)>>,
     <<R(2), R(0), R(-2), R(-1), R(0), R(1)>>,
     <<R(1), R(0), R(0), R(0), R(1), R(0)>>}

Velocities3 ==
    {<<R(0), R(0), R(0), R(0), R(0), R(0), R(0), R(0), R(0)>>,
     <<R(1), R(0), R(0), R(1), R(0), R(0), R(-1), R(0), R(0)>>}

NBodyCalls ==
    {[fn |-> "nbody_rhs", U |-> p \o v, masses |-> m, G |-> g] :
        p \in Positions2, v \in Velocities2,
        m \in {<<R(1), R(2)>>, <<R(3), R(1)>>}, g \in {R(1), R(2)}}
    \cup
    {[fn |-> "nbody_rhs", U |-> p \o v, masses |-> m, G |-> R(1)] :
        p \in Positions3, v \in Velocities3,
        m \in {<<R(1), R(2), R(3)>>, <<R(2), R(2), R(1)>>}}

RhsInit ==
    /\ rhs_pc = "call"
    /\ rhs_call \in KeplerCalls \cup RotatingCalls \cup NBodyCalls
    /\ rhs_out = <<>>

Call_kepler_rhs ==
    /\ rhs_pc = "call" /\ rhs_call.fn = "kepler_rhs"
    /\ UNCHANGED rhs_frame
    /\ rhs_out' = kepler_rhs(rhs_call.U, R(0), rhs_call.mu)
    /\ rhs_pc' = "done"
    /\ UNCHANGED rhs_call

Call_arenstorf_rhs ==
    /\ rhs_pc = "call" /\ rhs_call.fn = "arenstorf_rhs"
    /\ UNCHANGED rhs_frame
    /\ rhs_out' = arenstorf_rhs(rhs_call.U, R(0), rhs_call.mu)
    /\ rhs_pc' = "done"
    /\ UNCHANGED rhs_call

Call_crtbp_rhs ==
    /\ rhs_pc = "call" /\ rhs_call.fn = "crtbp_rhs"
    /\ UNCHANGED rhs_frame
    /\ rhs_out' = crtbp_rhs(rhs_call.U, R(0), rhs_call.mu)
    /\ rhs_pc' = "done"
    /\ UNCHANGED rhs_call

Call_nbody_rhs ==
    /\ rhs_pc = "call" /\ rhs_call.fn = "nbody_rhs"
    /\ UNCHANGED rhs_frame
    /\ rhs_out' = nbody_rhs(rhs_call.U, R(0), rhs_call.masses, rhs_call.G)
    /\ rhs_pc' = "done"
    /\ UNCHANGED rhs_call

RhsNext == Call_kepler_rhs \/ Call_arenstorf_rhs \/ Call_crtbp_rhs \/ Call_nbody_rhs

\* the N-body runs of simulate_nbody: bodies on the x axis
\* largest final time of the enumerated N-body runs
MaxNBodyT == 2

\* state [positions..., velocities...] of bodies on the x axis
OnAxis(xs, vs) ==
    [k \in 1..(6 * Len(xs)) |->
        IF k <= 3 * Len(xs)
        THEN (IF k % 3 = 1 THEN xs[(k + 2) \div 3] ELSE R(0))
        ELSE (IF k % 3 = 1 THEN vs[(k - 3 * Len(xs) + 2) \div 3] ELSE R(0))]

NBodySetups ==
    {[masses |-> m, U0 |-> OnAxis(x, v)] :
        m \in {<<R(1), R(2)>>, <<R(3), R(1)>>},
        x \in {<<R(-1), R(2)>>, <<R(0), R(0)>>, <<R(0), R(3)>>},
        v \in {<<R(0), R(0)>>, <<R(2), R(-1)>>, <<R(1), R(0)>>, <<R(-1), R(3)>>}}
    \cup
    {[masses |-> <<R(1), R(2), R(3)>>, U0 |-> OnAxis(x, v)] :
        x \in {<<R(-1), R(0), R(1)>>, <<R(0), R(0), R(2)>>},
        v \in {<<R(0), R(0), R(0)>>, <<R(1), R(1), R(-1)>>}}

\* the setups whose single RK4 step stays within the machine integers
RK4Setups ==
    {[masses |-> m, U0 |-> OnAxis(x, v)] :
        m \in {<<R(1), R(2)>>, <<R(3), R(1)>>},
        x \in {<<R(-1), R(2)>>, <<R(0), R(0)>>, <<R(0), R(3)>>},
        v \in {<<R(0), R(0)>>, <<R(2), R(-1)>>}}
    \cup
    {[masses |-> <<R(1), R(2), R(3)>>, U0 |-> OnAxis(x, v)] :
        x \in {<<R(-1), R(0), R(1)>>, <<R(0), R(0), R(2)>>},
        v \in {<<R(0), R(0), R(0)>>, <<R(1), R(1), R(-1)>>}}

\* simulate_nbody: F closes over masses and G, the mode follows the scheme.
\* RK4 runs make one step: the exact values of a second one need more than
\* 32 bits.
NBodyInit ==
    /\ \E c \in NBodySetups :
          /\ U0 = c.U0
          /\ F = [name |-> "nbody_rhs", masses |-> c.masses, G |-> R(1)]
          /\ \/ /\ scheme \in {"Euler", "Leap_Frog"}
                /\ t_span \in {<<R(0), R(k)>> : k \in 1..MaxNBodyT}
             \/ /\ scheme = "RK4"
                /\ c \in RK4Setups
                /\ t_span = <<R(0), R(1)>>
    /\ is_leapfrog = (scheme = "Leap_Frog")
    /\ dt = R(1)
    /\ n_steps = 0
    /\ t_array = <<>>
    /\ U_array = <<>>
    /\ i = 0
    /\ pc = "setup"
    /\ error = ""
    /\ calls = <<>>
    /\ rhs_evals = 0

--------------------------------------------------------------------------
(* The oscillator runs of run_hito4                                        *)

\* longest run, in steps
MaxOscSteps == 3

\* the steps whose exact trajectories stay within 32-bit integers,
\* per scheme; dt < 1 is inside the stability interval of
\* Leap_Frog, dt >= 1 outside
OscDt(s) ==
    CASE s = "Euler" -> {Rat(1, 2), R(1), R(2)}
      [] s = "Inverse_Euler" -> {Rat(1, 2), R(1), R(2)}
      [] s = "Crank_Nicolson" -> {R(1), R(2)}
      [] s = "Leap_Frog" -> {Rat(1, 4), Rat(1, 2), R(1), R(2)}

\* prob = PROBLEMS['oscillator']: U0 = [1, 0], F = oscillator_rhs
OscInit ==
    /\ scheme \in {"Euler", "Inverse_Euler", "Crank_Nicolson", "Leap_Frog"}
    /\ U0 = <<R(1), R(0)>>
    /\ F = [name |-> "oscillator_rhs"]
    /\ dt \in OscDt(scheme)
    /\ t_span \in {<<R(0), RMul(R(k), dt)>> : k \in 1..MaxOscSteps}
    /\ is_leapfrog = (scheme = "Leap_Frog")
    /\ n_steps = 0
    /\ t_array = <<>>
    /\ U_array = <<>>
    /\ i = 0
    /\ pc = "setup"
    /\ error = ""
    /\ calls = <<>>
    /\ rhs_evals = 0

--------------------------------------------------------------------------
(* Evaluations of the amplification factors                                *)

StabIdle == stab_pc = "idle" /\ stab_call = [fn |-> "none"] /\ stab_out = <<>>

\* points of the mesh re in [-4, 2], im in [-3, 3], here with spacing 1/2
ZGrid == {C(Rat(a, 2), Rat(b, 2)) : a \in (-8)..4, b \in (-6)..6}

\* z = (u - 1/u)/2: the points where np.sqrt(z**2 + 1) = +-(u + 1/u)/2 is
\* rational
LeapfrogPoints ==
    {C(R(0), R(0))} \cup
    {CDivReal(CSub(u, CDiv(COne, u)), 2) :
        u \in {C(Rat(a, 2), Rat(b, 2)) : a \in (-4)..4, b \in (-4)..4}
              \ {C(R(0), R(0))}}

GNames == {"G_euler", "G_inverse_euler", "G_crank_nicolson", "G_rk4"}

\* the names of the list methods of plot_stability_regions
Methods == {"Euler", "Euler Inverso", "Crank-Nicolson", "RK4", "Leap-Frog"}

\* the amplification factor inside the criterion of a method
MethodG(name, z) ==
    CASE name = "Euler" -> G_euler(z)
      [] name = "Euler Inverso" -> G_inverse_euler(z)
      [] name = "Crank-Nicolson" -> G_crank_nicolson(z)
      [] name = "RK4" -> G_rk4(z)

\* the criteria with the boundary left out
criterion_strict(name, z) ==
    IF name = "Leap-Frog" THEN stable_leapfrog(z) ELSE AbsLt1(MethodG(name, z))

\* criterion(Z) at one point of the mesh: lambda z: np.abs(G(z)) <= 1
criterion(name, z) ==
    IF name = "Leap-Frog" THEN stable_leapfrog(z) ELSE AbsLe1(MethodG(name, z))

StabInit ==
    /\ stab_pc = "call"
    /\ stab_call \in {[fn |-> f, z |-> z] : f \in GNames, z \in ZGrid}
                     \cup {[fn |-> "stable_leapfrog", z |-> z] : z \in LeapfrogPoints}
                     \cup {[fn |-> "criterion", name |-> m, z |-> z] :
                              m \in Methods \ {"Leap-Frog"}, z \in ZGrid}
                     \cup {[fn |-> "criterion", name |-> "Leap-Frog", z |-> z] :
                              z \in LeapfrogPoints}
    /\ stab_out = <<>>

\* mask = criterion(Z), one point of the mesh
Eval_criterion ==
    /\ stab_pc = "call" /\ stab_call.fn = "criterion"
    /\ stab_out' = criterion(stab_call.name, stab_call.z)
    /\ stab_pc' = "done"
    /\ UNCHANGED <<stab_call, stab_frame>>

Eval_G_euler ==
    /\ stab_pc = "call" /\ stab_call.fn = "G_euler"
    /\ stab_out' = G_euler(stab_call.z)
    /\ stab_pc' = "done"
    /\ UNCHANGED <<stab_call, stab_frame>>

Eval_G_inverse_euler ==
    /\ stab_pc = "call" /\ stab_call.fn = "G_inverse_euler"
    /\ stab_out' = G_inverse_euler(stab_call.z)
    /\ stab_pc' = "done"
    /\ UNCHANGED <<stab_call, stab_frame>>

Eval_G_crank_nicolson ==
    /\ stab_pc = "call" /\ stab_call.fn = "G_crank_nicolson"
    /\ stab_out' = G_crank_nicolson(stab_call.z)
    /\ stab_pc' = "done"
    /\ UNCHANGED <<stab_call, stab_frame>>

Eval_G_rk4 ==
    /\ stab_pc = "call" /\ stab_call.fn = "G_rk4"
    /\ stab_out' = G_rk4(stab_call.z)
    /\ stab_pc' = "done"
    /\ UNCHANGED <<stab_call, stab_frame>>

Eval_stable_leapfrog ==
    /\ stab_pc = "call" /\ stab_call.fn = "stable_leapfrog"
    /\ stab_out' = stable_leapfrog(stab_call.z)
    /\ stab_pc' = "done"
    /\ UNCHANGED <<stab_call, stab_frame>>

StabNext ==
    \/ Eval_G_euler \/ Eval_G_inverse_euler \/ Eval_G_crank_nicolson
    \/ Eval_G_rk4 \/ Eval_stable_leapfrog \/ Eval_criterion

--------------------------------------------------------------------------
(* Calls of the analysis functions                                         *)

LibIdle ==
    lib_pc = "idle" /\ lib_call = [fn |-> "none"] /\ lib_loc = <<>> /\ lib_out = <<>>

\* the callable U_exact of a problem whose solution stays at zero
ExactApply(e, t) == VZero(2)

\* errors[k] > 0, an error being kept as the vector whose norm it is
Positive(e) == e # VZero(Len(e))

RECURSIVE RatesFrom(_, _, _)
\* the loop over range(len(errors) - 1) from index k on (indices from 1);
\* an entry stands for log(|Ei| / |Ej|) / log(dti / dtj)
RatesFrom(errors, dts, k) ==
    IF k > Len(errors) - 1 THEN <<>>
    ELSE (IF Positive(errors[k + 1])
          THEN <<[Ei |-> errors[k], Ej |-> errors[k + 1],
                  dti |-> dts[k], dtj |-> dts[k + 1]]>>
          ELSE <<>>)
         \o RatesFrom(errors, dts, k + 1)

ConvDtLists ==
    {<<Rat(1, 2), Rat(1, 4)>>, <<R(1), Rat(1, 2)>>, <<R(1), Rat(1, 2), Rat(1, 4)>>,
     <<Rat(1, 2), R(2), R(1)>>}

ConvCalls ==
    {[fn |-> "convergence_rate", scheme |-> s, F |-> f, U0 |-> u, t_span |-> sp,
      dt_values |-> d, U_exact |-> e, is_leapfrog |-> (s = "Leap_Frog")] :
        s \in {"Euler", "Leap_Frog", "RK89"},
        f \in RhsSet,
        u \in {<<R(1), R(0)>>, <<R(0), R(0)>>},
        sp \in {<<R(0), Rat(1, 2)>>, <<R(0), R(1)>>},
        d \in ConvDtLists,
        e \in {[name |-> "None"], [name |-> "zero_solution"]}}

\* the calls in which every run has its rows: the two-step mode needs two
ConvInit ==
    /\ lib_pc = "call"
    /\ lib_call \in {c \in ConvCalls :
                        c.is_leapfrog => \A k \in 1..Len(c.dt_values) :
                            RLe(c.dt_values[k], c.t_span[2])}
    /\ lib_loc = <<>>
    /\ lib_out = <<>>

\* the step of the run in progress: dt, or dt_refined = dt / 2
RunDt(c, loc) ==
    IF loc.run = "dt" THEN c.dt_values[loc.k] ELSE RDiv(c.dt_values[loc.k], R(2))

\* n_steps and t_array of integrate_cauchy for the step h
RunN(c, h) == NSteps(c.t_span[1], c.t_span[2], h)

RunT(c, h) == linspace(c.t_span[1], c.t_span[2], RunN(c, h))

\* integrate_cauchy up to its loop: U_array[0] = U0 and, in the two-step
\* mode, U_array[1] by Euler
RunStart(c, h) ==
    IF c.is_leapfrog
    THEN <<c.U0, Array(Euler(c.U0, RunT(c, h)[0], h, c.F))>>
    ELSE <<c.U0>>

\* one pass of the loop of integrate_cauchy: the row after the rows written
RunRow(c, rows, h) ==
    LET m == Len(rows)
        t == RunT(c, h)
    IN  IF c.is_leapfrog
        THEN Array(Leap_Frog(rows[m], rows[m - 1], t[m - 1], h, c.F))
        ELSE Array(CallOneStep(c.scheme, rows[m], t[m - 1], h, c.F))

\* for dt in dt_values: the call integrate_cauchy(scheme, U0, t_span, dt, ...)
conv_integrate ==
    /\ lib_pc = "call" /\ lib_call.fn = "convergence_rate"
    /\ lib_loc' = [errors |-> <<>>, k |-> 1, run |-> "dt", U |-> <<>>,
                   rows |-> RunStart(lib_call, lib_call.dt_values[1])]
    /\ lib_pc' = "integrate"
    /\ UNCHANGED <<lib_call, lib_out, lib_frame>>

\* a pass of the loop of the integrate_cauchy call in progress
conv_integrate_step ==
    /\ lib_pc = "integrate"
    /\ Len(lib_loc.rows) < RunN(lib_call, RunDt(lib_call, lib_loc))
    /\ lib_loc' = [lib_loc EXCEPT !.rows =
                      Append(@, RunRow(lib_call, @, RunDt(lib_call, lib_loc)))]
    /\ UNCHANGED <<lib_pc, lib_call, lib_out, lib_frame>>

\* integrate_cauchy returned: the error against U_exact, or the refined run
\* and the error against it; then the next dt
conv_error ==
    /\ lib_pc = "integrate"
    /\ Len(lib_loc.rows) >= RunN(lib_call, RunDt(lib_call, lib_loc))
    /\ LET c == lib_call
           h == RunDt(c, lib_loc)
           n == RunN(c, h)
           last == lib_loc.rows[n]
           Next_dt(err) ==
               LET errors == Append(lib_loc.errors, err) IN
               IF lib_loc.k < Len(c.dt_values)
               THEN /\ lib_loc' = [errors |-> errors, k |-> lib_loc.k + 1,
                                   run |-> "dt", U |-> <<>>,
                                   rows |-> RunStart(c, c.dt_values[lib_loc.k + 1])]
                    /\ lib_pc' = "integrate"
               ELSE /\ lib_loc' = [errors |-> errors, k |-> lib_loc.k,
                                   run |-> "dt", U |-> <<>>, rows |-> <<>>]
                    /\ lib_pc' = "rates"
       IN  IF lib_loc.run = "dt_refined"
           THEN Next_dt(Array(VSub(lib_loc.U, last)))
           ELSE IF c.U_exact.name # "None"
           THEN Next_dt(Array(VSub(last, ExactApply(c.U_exact, RunT(c, h)[n - 1]))))
           ELSE /\ lib_loc' = [lib_loc EXCEPT !.run = "dt_refined", !.U = last,
                                  !.rows = RunStart(c, RDiv(h, R(2)))]
                /\ lib_pc' = "integrate"
    /\ UNCHANGED <<lib_call, lib_out, lib_frame>>

\* the rates loop and return errors, np.array(rates)
conv_rates ==
    /\ lib_pc = "rates"
    /\ lib_out' = [errors |-> lib_loc.errors,
                   rates |-> RatesFrom(lib_loc.errors, lib_call.dt_values, 1)]
    /\ lib_loc' = <<>>
    /\ lib_pc' = "done"
    /\ UNCHANGED <<lib_call, lib_frame>>

\* convergence_rate(scheme, F, U0, t_span, dt_values, U_exact, **kwargs)
convergence_rate ==
    \/ conv_integrate
    \/ conv_integrate_step
    \/ conv_error
    \/ conv_rates

\* the implicit schemes stepped by the one-step loop of integrate_cauchy,
\* with what the caller gets from each call: the value returned and the
\* warnings the interpreter shows
MaxImplicitSteps == 3

ImplicitCalls ==
    [fn : {"implicit_steps"}, scheme : ImplicitSchemes,
     F : {[name |-> "oscillator_rhs"], [name |-> "linear_rhs"]},
     U0 : {<<R(1), R(0)>>, <<R(0), R(0)>>},
     dt : {RDiv(R(1), R(2)), R(1), R(2)},
     n_steps : 1..MaxImplicitSteps]

ImplicitInit ==
    /\ lib_pc = "call"
    /\ lib_call \in ImplicitCalls
    /\ lib_loc = [U |-> lib_call.U0, i |-> 0, registry |-> {}, calls |-> <<>>]
    /\ lib_out = <<>>

\* the fsolve call made by an implicit scheme
SchemeFsolve(s, U, t, h, f) ==
    CASE s = "Inverse_Euler"  -> Inverse_Euler_fsolve(U, t, h, f)
      [] s = "Crank_Nicolson" -> Crank_Nicolson_fsolve(U, t, h, f)

\* the source line of the fsolve call in a scheme
FsolveLine(s) ==
    CASE s = "Inverse_Euler"  -> 148
      [] s = "Crank_Nicolson" -> 31

\* fsolve without full_output: warnings.warn(msg, RuntimeWarning) when the
\* status is not 1; the text depends on the status alone
FsolveWarning(s, sol) ==
    IF sol.ier = 1 THEN {}
    ELSE {[text |-> sol.ier, category |-> "RuntimeWarning", lineno |-> FsolveLine(s)]}

\* one pass of the loop: U_array[i+1] = scheme(U_array[i], t_array[i], dt, F);
\* a warning is shown unless the registry of its location already holds it
\* (the interpreter's "default" action, no filter being installed)
implicit_step ==
    /\ lib_pc = "call"
    /\ lib_call.fn = "implicit_steps"
    /\ lib_loc.i < lib_call.n_steps
    /\ LET c == lib_call
           t == RMul(R(lib_loc.i), c.dt)
           sol == SchemeFsolve(c.scheme, lib_loc.U, t, c.dt, c.F)
           w == FsolveWarning(c.scheme, sol)
       IN  lib_loc' = [U |-> Array(sol.x),
                       i |-> lib_loc.i + 1,
                       registry |-> lib_loc.registry \cup w,
                       calls |-> Append(lib_loc.calls,
                                        [returned |-> Array(sol.x),
                                         raised |-> "none",
                                         shown |-> w \ lib_loc.registry,
                                         ier |-> sol.ier])]
    /\ UNCHANGED <<lib_pc, lib_call, lib_out, lib_frame>>

implicit_return ==
    /\ lib_pc = "call"
    /\ lib_call.fn = "implicit_steps"
    /\ lib_loc.i = lib_call.n_steps
    /\ lib_out' = lib_loc.calls
    /\ lib_loc' = <<>>
    /\ lib_pc' = "done"
    /\ UNCHANGED <<lib_call, lib_frame>>

implicit_steps == implicit_step \/ implicit_return

\* classify_stability(evals, tol=1e-8) of hito_6
RAbs(x) == <<Abs(x[1]), x[2]>>

\* np.real of one eigenvalue
real(z) == z[1]

DefaultTol == Rat(1, 100000000)

\* classify_stability with <= in place of <
classify_stability_le(evals, tol) ==
    IF \A k \in 1..Len(evals) : RLe(RAbs(real(evals[k])), tol)
    THEN "estable (centro)"
    ELSE "inestable (silla)"

classify_stability(evals, tol) ==
    IF \A k \in 1..Len(evals) : RLt(RAbs(real(evals[k])), tol)
    THEN "estable (centro)"
    ELSE "inestable (silla)"

MaxEvals == 2

EigenvalueSet ==
    {C(re, im) : re \in {R(0), Rat(1, 1000000000), Rat(-1, 1000000000),
                         DefaultTol, RNeg(DefaultTol), R(1), R(-1), NaN},
                im \in {R(0), R(1)}}

EvalsLists == UNION {[1..n -> EigenvalueSet] : n \in 0..MaxEvals}

ClassifyCalls ==
    [fn : {"classify_stability"}, evals : EvalsLists,
     tol : {"default", R(1)}]

\* the tolerance a call runs with
TolOf(c) == IF c.tol = "default" THEN DefaultTol ELSE c.tol

Call_classify_stability ==
    /\ lib_pc = "call"
    /\ lib_call.fn = "classify_stability"
    /\ lib_out' = classify_stability(lib_call.evals, TolOf(lib_call))
    /\ lib_pc' = "done"
    /\ UNCHANGED <<lib_call, lib_loc, lib_frame>>

\* jacobian_numerical(F, U, t, h=1e-6) of Stability
DefaultH == Rat(1, 1000000)

\* np.zeros((n, n)), by rows
Zeros(n) == [r \in 1..n |-> [k \in 1..n |-> R(0)]]

\* (F_pert - F0) / h without the division
FiniteDifference_unscaled(F_pert, F0, h) ==
    Array([k \in 1..Len(F0) |-> RSub(F_pert[k], F0[k])])

\* (F_pert - F0) / h
FiniteDifference(F_pert, F0, h) ==
    Array([k \in 1..Len(F0) |-> RDiv(RSub(F_pert[k], F0[k]), h)])

\* J[:, j] = col
SetColumn(J, j, col) ==
    Array([r \in 1..Len(J) |-> Array([k \in 1..Len(J[r]) |->
                                        IF k = j THEN col[r] ELSE J[r][k]])])

Matrices2 ==
    {<<<<R(0), R(1)>>, <<R(-1), R(0)>>>>,
     <<<<R(2), R(-3)>>, <<R(5), R(7)>>>>,
     <<<<R(0), R(0)>>, <<R(0), R(0)>>>>,
     <<<<Rat(1, 2), R(4)>>, <<R(0), Rat(-1, 3)>>>>}

Matrices3 ==
    {<<<<R(1), R(2), R(3)>>, <<R(4), R(5), R(6)>>, <<R(7), R(8), R(-9)>>>>,
     <<<<R(0), R(1), R(0)>>, <<R(0), R(0), R(1)>>, <<R(-1), R(0), R(0)>>>>}

JacobianCalls ==
    [fn : {"jacobian_numerical"},
     F : {[name |-> "oscillator_rhs"], [name |-> "forced_rhs"],
          [name |-> "linear_rhs"], [name |-> "vanderpol_rhs"]},
     U : {<<R(0), R(0)>>, <<R(1), R(0)>>, <<R(1), R(2)>>, <<R(-2), Rat(1, 2)>>},
     t : {R(0), R(1)}, h : {R(1), Rat(1, 2)}]
    \cup
    [fn : {"jacobian_numerical"},
     F : {[name |-> "oscillator_rhs"]} \cup {[name |-> "matrix_rhs", A |-> A] : A \in Matrices2},
     U : {<<R(0), R(0)>>, <<R(1), R(2)>>, <<R(-2), R(3)>>},
     t : {R(0)}, h : {"default", R(1), Rat(1, 2)}]
    \cup
    [fn : {"jacobian_numerical"},
     F : {[name |-> "matrix_rhs", A |-> A] : A \in Matrices3},
     U : {<<R(0), R(0), R(0)>>, <<R(1), R(-2), R(3)>>},
     t : {R(0)}, h : {"default", Rat(1, 2)}]

\* the step a call runs with
StepOf(c) == IF c.h = "default" THEN DefaultH ELSE c.h

\* n = len(U); J = np.zeros((n, n)); F0 = F(U, t)
jac_start ==
    /\ lib_pc = "call"
    /\ lib_call.fn = "jacobian_numerical"
    /\ lib_loc' = [n |-> Len(lib_call.U),
                   J |-> Zeros(Len(lib_call.U)),
                   F0 |-> Array(FApply(lib_call.F, lib_call.U, lib_call.t)),
                   j |-> 0,
                   U |-> lib_call.U,
                   U_pert |-> <<>>,
                   evals |-> 1]
    /\ lib_pc' = "columns"
    /\ UNCHANGED <<lib_call, lib_out, lib_frame>>

\* one pass of "for j in range(n)"; U is the caller's array, U_pert the copy
jac_column ==
    /\ lib_pc = "columns"
    /\ lib_loc.j < lib_loc.n
    /\ LET j == lib_loc.j + 1
           copy == Array(lib_loc.U)
           U_pert == [copy EXCEPT ![j] = RAdd(@, StepOf(lib_call))]
           F_pert == Array(FApply(lib_call.F, U_pert, lib_call.t))
       IN  lib_loc' = [lib_loc EXCEPT
                          !.U_pert = U_pert,
                          !.J = SetColumn(@, j, FiniteDifference(F_pert, lib_loc.F0,
                                                                 StepOf(lib_call))),
                          !.evals = @ + 1,
                          !.j = j]
    /\ UNCHANGED <<lib_pc, lib_call, lib_out, lib_frame>>

\* return J; U is the caller's array as the call leaves it
jac_return ==
    /\ lib_pc = "columns"
    /\ lib_loc.j = lib_loc.n
    /\ lib_out' = [J |-> lib_loc.J, U |-> lib_loc.U, evals |-> lib_loc.evals]
    /\ lib_loc' = <<>>
    /\ lib_pc' = "done"
    /\ UNCHANGED <<lib_call, lib_frame>>

jacobian_numerical == jac_start \/ jac_column \/ jac_return

\* calls of the stability helpers
LibInit ==
    /\ lib_pc = "call"
    /\ lib_call \in ClassifyCalls \cup JacobianCalls
    /\ lib_loc = <<>>
    /\ lib_out = <<>>

--------------------------------------------------------------------------
(* InterplanetaryMission (gmat_backend_ity.py)                             *)

\* Python's None
None == [type |-> "NoneType"]

\* no mission object
MissionIdle == self = None /\ history = <<>>

\* largest number of calls made on one object
MaxCalls == 4

\* what read_hyperbolic_velocities can return
VelocityPairs == {[file |-> "vels_a"], [file |-> "vels_b"]}

\* the object as __init__ leaves it
MissionInit ==
    /\ self = [is_helio_loaded |-> FALSE, is_transfer_loaded |-> FALSE,
               hyperbolic_vels |-> None, redson_params |-> None,
               final_results |-> None]
    /\ history = <<>>

\* what GMAT and the file system do during one call: whether the script
\* file exists, what LoadScript, the object configuration and RunScript
\* give, what the reader of the output file gives
Environments ==
    [script_exists : BOOLEAN, LoadScript : {"True", "False", "error"},
     configure : {"ok", "error", "error_late"}, RunScript : BOOLEAN,
     read : VelocityPairs \cup {[error |-> "FileNotFoundError"]},
     final : {None, [header |-> "results"]},
     redson : {"ok", "error"}]

\* a call and how it ended
Called(method, raised) == Append(history, [method |-> method, raised |-> raised])

\* the test of run_transfer_mission made on the velocities
params_missing_velocities(obj) == obj.hyperbolic_vels = None

\* if self.hyperbolic_vels is None
vels_missing(obj) == obj.hyperbolic_vels = None

\* if self.redson_params is None
params_missing(obj) == obj.redson_params = None

\* one call of run_heliocentric_mission on obj: the object after it and how
\* it ended
heliocentric(obj, env) ==
    LET loaded == IF env.LoadScript = "error" THEN obj
                  ELSE [obj EXCEPT !.is_helio_loaded = (env.LoadScript = "True")]
    IN  IF ~env.script_exists
        THEN [obj |-> obj, raised |-> "GmatBackendError"]
        ELSE IF \/ env.LoadScript # "True" \/ env.configure # "ok"
                \/ ~env.RunScript \/ env.read \notin VelocityPairs
        THEN [obj |-> loaded, raised |-> "GmatBackendError"]
        ELSE [obj |-> [loaded EXCEPT !.hyperbolic_vels = env.read], raised |-> "none"]

\* one call of calculate_transfer_parameters on obj
parameters(obj, env) ==
    IF vels_missing(obj) \/ env.redson = "error"
    THEN [obj |-> obj, raised |-> "GmatBackendError"]
    ELSE [obj |-> [obj EXCEPT !.redson_params =
                      [of |-> obj.hyperbolic_vels, RAAN |-> "unset", AOP |-> "unset"]],
          raised |-> "none"]

\* one call of run_transfer_mission on obj; run_result is what RunScript
\* gave when it was reached, returned what the call returns
transfer(obj, env) ==
    LET loaded == IF env.LoadScript = "error" THEN obj
                  ELSE [obj EXCEPT !.is_transfer_loaded = (env.LoadScript = "True")]
        targeted == [loaded EXCEPT !.redson_params.RAAN = "test",
                                   !.redson_params.AOP = "test"]
    IN  IF params_missing(obj) \/ ~env.script_exists
        THEN [obj |-> obj, raised |-> "GmatBackendError"]
        ELSE IF env.LoadScript # "True"
        THEN [obj |-> loaded, raised |-> "GmatBackendError"]
        ELSE IF env.configure = "error"
        THEN [obj |-> loaded, raised |-> "GmatBackendError"]
        ELSE IF env.configure = "error_late"
        THEN [obj |-> targeted, raised |-> "GmatBackendError"]
        ELSE [obj |-> [targeted EXCEPT !.final_results = env.final],
              raised |-> "none", run_result |-> env.RunScript, returned |-> env.final]

\* the calls of a list appended to the history
Calls(list) == history \o list

\* what a phase can do to obj, over everything the environment can do
Outcomes(phase(_, _), obj) == {phase(obj, env) : env \in Environments}

run_heliocentric_mission ==
    /\ self # None /\ Len(history) < MaxCalls
    /\ \E r \in Outcomes(heliocentric, self) :
          /\ self' = r.obj
          /\ history' = Called("run_heliocentric_mission", r.raised)
    /\ UNCHANGED mission_frame

calculate_transfer_parameters ==
    /\ self # None /\ Len(history) < MaxCalls
    /\ \E r \in Outcomes(parameters, self) :
          /\ self' = r.obj
          /\ history' = Called("calculate_transfer_parameters", r.raised)
    /\ UNCHANGED mission_frame

run_transfer_mission ==
    /\ self # None /\ Len(history) < MaxCalls
    /\ \E r \in Outcomes(transfer, self) :
          /\ self' = r.obj
          /\ history' = Called("run_transfer_mission", r.raised)
    /\ UNCHANGED mission_frame

\* run_complete_mission: the three stages one after the other, any
\* exception re-raised as GmatBackendError; the calls it makes are part of
\* the history, stages tells which of them ran to a good end (for the
\* transfer: RunScript gave True)
run_complete_mission ==
    /\ self # None /\ Len(history) < MaxCalls
    /\ \E r1 \in Outcomes(heliocentric, self) :
          LET c1 == [method |-> "run_heliocentric_mission", raised |-> r1.raised]
          IN
          IF r1.raised # "none"
          THEN /\ self' = r1.obj
               /\ history' = Calls(<<c1,
                     [method |-> "run_complete_mission", raised |-> "GmatBackendError",
                      stages |-> <<FALSE, FALSE, FALSE>>]>>)
          ELSE \E r2 \in Outcomes(parameters, r1.obj) :
             LET c2 == [method |-> "calculate_transfer_parameters", raised |-> r2.raised]
             IN
             IF r2.raised # "none"
             THEN /\ self' = r2.obj
                  /\ history' = Calls(<<c1, c2,
                        [method |-> "run_complete_mission", raised |-> "GmatBackendError",
                         stages |-> <<TRUE, FALSE, FALSE>>]>>)
             ELSE \E r3 \in Outcomes(transfer, r2.obj) :
                LET c3 == [method |-> "run_transfer_mission", raised |-> r3.raised]
                IN
                /\ self' = r3.obj
                /\ history' = Calls(<<c1, c2, c3,
                      IF r3.raised # "none"
                      THEN [method |-> "run_complete_mission", raised |-> "GmatBackendError",
                            stages |-> <<TRUE, TRUE, FALSE>>]
                      ELSE [method |-> "run_complete_mission", raised |-> "none",
                            stages |-> <<TRUE, TRUE, r3.run_result>>,
                            returned |-> [status |-> "success",
                                          final_results |-> r3.returned]]>>)
    /\ UNCHANGED mission_frame

--------------------------------------------------------------------------
(* simulate_nbody and the module-level scheme (hito_5.py)                  *)

\* the schemes a simulation is run with
SimSchemes == {"Euler", "RK4", "Leap_Frog"}

\* the scheme of the run with the argument ignored
scheme_used_global(scheme_arg, ESQUEMA_TEMPORAL) == ESQUEMA_TEMPORAL

\* if scheme is None: scheme = ESQUEMA_TEMPORAL
scheme_used(scheme_arg, ESQUEMA_TEMPORAL) ==
    IF scheme_arg = "None" THEN ESQUEMA_TEMPORAL ELSE scheme_arg

\* the calls: the value of the module-level ESQUEMA_TEMPORAL at the call,
\* the argument scheme ("None" when it is left out), the system.  A run
\* with RK4 makes one step.
SimCalls ==
    {[fn |-> "simulate_nbody", ESQUEMA_TEMPORAL |-> g, scheme |-> a, setup |-> c,
      t_span |-> <<R(0), R(k)>>] :
        g \in SimSchemes, a \in SimSchemes \cup {"None"}, c \in RK4Setups,
        k \in 1..MaxNBodyT}

SimInit ==
    /\ lib_pc = "call"
    /\ lib_call \in {c \in SimCalls :
                        scheme_used(c.scheme, c.ESQUEMA_TEMPORAL) = "RK4"
                            => c.t_span = <<R(0), R(1)>>}
    /\ lib_loc = <<>>
    /\ lib_out = <<>>

\* simulate_nbody up to its call of integrate_cauchy
simulate_nbody ==
    /\ lib_pc = "call"
    /\ lib_call.fn = "simulate_nbody"
    /\ pc = "idle"
    /\ scheme' = scheme_used(lib_call.scheme, lib_call.ESQUEMA_TEMPORAL)
    /\ is_leapfrog' = (scheme' = "Leap_Frog")
    /\ F' = [name |-> "nbody_rhs", masses |-> lib_call.setup.masses, G |-> R(1)]
    /\ U0' = lib_call.setup.U0
    /\ t_span' = lib_call.t_span
    /\ dt' = R(1)
    /\ pc' = "setup"
    /\ lib_pc' = "integrate_cauchy"
    /\ UNCHANGED <<n_steps, t_array, U_array, i, error, calls, rhs_evals>>
    /\ UNCHANGED <<lib_call, lib_loc, lib_out>>
    /\ UNCHANGED <<rhs_vars, stab_vars, mission_vars, setup_vars, gui_vars>>

--------------------------------------------------------------------------
(* The schemes on the test equation y' = lambda*y (hito_4.py)              *)

\* F = lambda U, t: w*U for complex w and U: the product of complex128
\* values, component by component
TestEquation(w) ==
    [name |-> "matrix_rhs", A |-> <<<<w[1], RNeg(w[2])>>, <<w[2], w[1]>>>>]

\* values of z = lambda*dt at which np.sqrt(z**2 + 1) is rational
TestZ ==
    {C(R(0), R(0)), C(Rat(3, 4), R(0)), C(Rat(-3, 4), R(0)), C(Rat(4, 3), R(0)),
     C(R(0), R(1)), C(R(0), Rat(3, 5)), C(Rat(1, 4), Rat(3, 4)),
     C(Rat(-1, 4), Rat(-3, 4))}

TestCalls ==
    {[fn |-> "test_equation", lam |-> C(RDiv(z[1], h), RDiv(z[2], h)), dt |-> h,
      U |-> u, U_prev |-> v] :
        z \in TestZ, h \in {Rat(1, 2), R(1), R(2)},
        u \in {C(R(1), R(0)), C(R(0), R(1)), C(R(2), R(-1))},
        v \in {C(R(1), R(0)), C(R(0), R(0))}}

TestInit ==
    /\ lib_pc = "call"
    /\ lib_call \in TestCalls
    /\ lib_loc = <<>>
    /\ lib_out = <<>>

\* one step of each scheme with F = lambda U, t: w*U, and the roots
\* stable_leapfrog takes at z = w*dt
Call_test_equation ==
    /\ lib_pc = "call"
    /\ lib_call.fn = "test_equation"
    /\ LET c == lib_call
           f == TestEquation(c.lam)
           z == C(RMul(c.lam[1], c.dt), RMul(c.lam[2], c.dt))
       IN  lib_out' = [Euler |-> Euler(c.U, R(0), c.dt, f),
                       RK4 |-> RK4(c.U, R(0), c.dt, f),
                       Leap_Frog |-> Leap_Frog(c.U, c.U_prev, R(0), c.dt, f),
                       G_euler |-> G_euler(z),
                       G_rk4 |-> G_rk4(z),
                       roots |-> LeapfrogRoots(z),
                       stable |-> stable_leapfrog(z)]
    /\ lib_pc' = "done"
    /\ UNCHANGED <<lib_call, lib_loc, lib_frame>>

--------------------------------------------------------------------------
(* GmatScriptGenerator (script_generator.py)                               *)

\* A script is its text, as the sequence of its pieces: a name, "=", ";",
\* a blank, a line end, a value or any other word.
IsSpace(c) == c \in {" ", "\n"}

\* \s*: the first place from p on that holds no white space
RECURSIVE SkipSpace(_, _)
SkipSpace(content, p) ==
    IF p <= Len(content) /\ IsSpace(content[p]) THEN SkipSpace(content, p + 1) ELSE p

\* the first ";" from p on, 0 when there is none
RECURSIVE FindSemicolon(_, _)
FindSemicolon(content, p) ==
    IF p > Len(content) THEN 0
    ELSE IF content[p] = ";" THEN p
    ELSE FindSemicolon(content, p + 1)

\* ^ under re.MULTILINE
AtLineStart(content, p) == p = 1 \/ content[p - 1] = "\n"

\* ^(name\s*=\s*)([^;]+)(;) tried at p: where group 2 starts and where
\* group 3 stands, <<>> without a match.  \s* and [^;]+ both run over line
\* ends; when \s* has eaten all that comes before the ";" it gives one
\* blank back to [^;]+.
Match(content, name, p) ==
    IF ~(AtLineStart(content, p) /\ content[p] = name) THEN <<>>
    ELSE LET q1 == SkipSpace(content, p + 1)
         IN  IF q1 > Len(content) \/ content[q1] # "=" THEN <<>>
             ELSE LET q2 == SkipSpace(content, q1 + 1)
                      e == FindSemicolon(content, q2)
                  IN  IF e = 0 THEN <<>>
                      ELSE IF e > q2 THEN <<q2, e>>
                      ELSE IF q2 > q1 + 1 THEN <<q2 - 1, e>>
                      ELSE <<>>

\* re.subn(pattern, r"\g<1>new_value\g<3>", content, flags=re.MULTILINE)
\* from p on
RECURSIVE subn(_, _, _, _)
subn(content, name, new_value, p) ==
    IF p > Len(content) THEN <<>>
    ELSE LET m == Match(content, name, p)
         IN  IF m = <<>>
             THEN <<content[p]>> \o subn(content, name, new_value, p + 1)
             ELSE SubSeq(content, p, m[1] - 1) \o <<new_value, ";">>
                  \o subn(content, name, new_value, m[2] + 1)

replace_spacecraft_parameter(content, spacecraft_name, param_name, new_value) ==
    subn(content, spacecraft_name \o "." \o param_name, new_value, 1)

replace_variable(content, var_name, new_value) ==
    subn(content, var_name, new_value, 1)

\* str(x) of an integer
str(x) == ToString(x)

\* str(x) of a float given in hundredths
str_hundredths(c) ==
    ToString(c \div 100) \o "." \o ToString((c % 100) \div 10) \o ToString(c % 10)

\* f"{x:.14f}" of an integer
f14(x) == ToString(x) \o ".00000000000000"

\* str(flight_duration / 2)
str_half(x) == ToString(x \div 2) \o (IF x % 2 = 0 THEN ".0" ELSE ".5")

\* an optional argument: <<>> is None
Given(arg) == arg # <<>>

\* the replacements of generate_script in their order: spacecraft ("" for a
\* variable), name, new value, and whether the call makes the replacement.
\* ecc_dep is in hundredths.
Replacements(a) ==
    << <<"heliocentric_SC", "Epoch", "'" \o a.mission_epoch \o "'", TRUE>>,
       <<"test", "Epoch", "'" \o a.mission_epoch \o "'", TRUE>>,
       <<"Sonda_Red_son", "Epoch", "'" \o a.mission_epoch \o "'", TRUE>>,
       <<"test", "SMA", str(a.sma_dep), TRUE>>,
       <<"test", "ECC", str_hundredths(a.ecc_dep), TRUE>>,
       <<"test", "INC", str(a.inc_dep), TRUE>>,
       <<"test", "RAAN", IF Given(a.raan) THEN str(a.raan[1]) ELSE "", Given(a.raan)>>,
       <<"Sonda_Red_son", "RAAN", IF Given(a.raan) THEN str(a.raan[1]) ELSE "", Given(a.raan)>>,
       <<"test", "AOP", IF Given(a.aop) THEN str(a.aop[1]) ELSE "", Given(a.aop)>>,
       <<"Sonda_Red_son", "INC", str(a.inc_dep), TRUE>>,
       <<"Sonda_Red_son", "SMA", str(a.sma_dep), a.sma_dep > 3396 /\ a.ecc_dep < 10>>,
       <<"Sonda_Red_son", "ECC", str_hundredths(a.ecc_dep), a.sma_dep > 3396 /\ a.ecc_dep < 10>>,
       <<"", "FlightTime", str(a.flight_duration), TRUE>>,
       <<"", "C3E_Goal", f14(a.c3_goal), TRUE>>,
       <<"", "Half_Flight_Time", str_half(a.flight_duration), TRUE>>,
       <<"", "Goal_BdotR", f14(a.bdot_r), TRUE>>,
       <<"", "Goal_BdotT", f14(a.bdot_t), TRUE>>,
       <<"", "Goal_SMA", IF Given(a.goal_sma) THEN str(a.goal_sma[1]) ELSE "", Given(a.goal_sma)>>,
       <<"", "Goal_ecc", IF Given(a.goal_ecc) THEN str_hundredths(a.goal_ecc[1]) ELSE "",
         Given(a.goal_ecc)>> >>

\* content after the first k replacements
RECURSIVE Replaced(_, _, _)
Replaced(content, list, k) ==
    IF k = 0 THEN content
    ELSE LET before == Replaced(content, list, k - 1)
             r == list[k]
         IN  IF ~r[4] THEN before
             ELSE IF r[1] = "" THEN replace_variable(before, r[2], r[3])
             ELSE replace_spacecraft_parameter(before, r[1], r[2], r[3])

\* generate_script(...) without output_filename: the returned text
generate_script(template_content, a) ==
    Replaced(template_content, Replacements(a), Len(Replacements(a)))

\* largest number of lines of a template
MaxLines == 3

\* the names the templates assign: two the generator looks for, one it
\* does not
TemplateNames == {"test.SMA", "Goal_SMA", "TOI.Element1"}

\* the lines of the templates: name = value;  the same without the ";",
\* and the same indented
TemplateLines ==
    UNION {{<<n, " ", "=", " ", "0", ";">>,
            <<n, " ", "=", " ", "0">>,
            <<" ", n, " ", "=", " ", "0", ";">>} : n \in TemplateNames}

\* the text of a list of lines, each with its line end
RECURSIVE Text(_)
Text(lines) ==
    IF lines = <<>> THEN <<>> ELSE Head(lines) \o <<"\n">> \o Text(Tail(lines))

\* the lines of a text, str.splitlines()
RECURSIVE splitlines(_, _)
splitlines(content, line) ==
    IF content = <<>> THEN (IF line = <<>> THEN <<>> ELSE <<line>>)
    ELSE IF Head(content) = "\n" THEN <<line>> \o splitlines(Tail(content), <<>>)
    ELSE splitlines(Tail(content), Append(line, Head(content)))

\* the arguments of generate_script in the calls
GenerateArgs ==
    [mission_epoch : {"06 Jun 2026 11:59:28.000"}, flight_duration : {350},
     sma_dep : {-3490, 7000}, ecc_dep : {5, 286}, inc_dep : {50}, c3_goal : {12},
     bdot_r : {22882}, bdot_t : {4288}, raan : {<<269>>}, aop : {<<>>},
     goal_sma : {<<>>, <<37500>>}, goal_ecc : {<<76>>}]

GenerateCalls ==
    {[fn |-> "generate_script", lines |-> l, args |-> a] :
        l \in UNION {[1..n -> TemplateLines] : n \in 1..MaxLines}, a \in GenerateArgs}

\* a generator made from a template
GenerateInit ==
    /\ lib_pc = "call"
    /\ lib_call \in GenerateCalls
    /\ lib_loc = [template_content |-> Text(lib_call.lines)]
    /\ lib_out = <<>>

Call_generate_script ==
    /\ lib_pc = "call"
    /\ lib_call.fn = "generate_script"
    /\ lib_out' = generate_script(lib_loc.template_content, lib_call.args)
    /\ lib_pc' = "done"
    /\ UNCHANGED <<lib_call, lib_loc, lib_frame>>

--------------------------------------------------------------------------
(* Setup of the Outputs folder (setup_outputs.py)                          *)

\* no installation
SetupIdle == fs = None /\ setup_calls = <<>>

\* largest number of calls of the setup functions
MaxSetupCalls == 3

\* the scripts of SCRIPT_FILES, by position
SCRIPT_FILES == 1..3

\* a ReportFile line of a script: the folder its path names, and whether
\* the line is written "name.Filename = 'path';" with single blanks
Reports == [dir : {"elsewhere"}, plain : BOOLEAN]

\* a script file: present or not, writable or not, its ReportFile lines
Scripts ==
    {[exists |-> FALSE, writable |-> FALSE, reports |-> <<>>]}
    \cup [exists : {TRUE}, writable : {TRUE}, reports : {<<>>} \cup {<<r>> : r \in Reports}]
    \cup {[exists |-> TRUE, writable |-> FALSE,
           reports |-> <<[dir |-> "elsewhere", plain |-> TRUE]>>]}

\* a first start of the application: no marker yet
SetupInit ==
    /\ fs \in [marker : {FALSE}, outputs : BOOLEAN, scripts : [SCRIPT_FILES -> Scripts]]
    /\ setup_calls = <<>>

\* update_script_paths(script_path, outputs_dir): the file after the call,
\* what the call returns, whether the file was written
update_script_paths(script) ==
    IF ~script.writable \/ script.reports = <<>>
    THEN [script |-> script, success |-> FALSE, written |-> FALSE]
    ELSE [script |-> [script EXCEPT !.reports =
                        [k \in 1..Len(script.reports) |->
                            IF script.reports[k].plain
                            THEN [script.reports[k] EXCEPT !.dir = "Outputs"]
                            ELSE script.reports[k]]],
          success |-> TRUE, written |-> TRUE]

\* the scripts of SCRIPT_FILES that exist
Present(files) == {n \in SCRIPT_FILES : files.scripts[n].exists}

\* setup_outputs(): the files after it, what it returns, the scripts it wrote
run_setup_outputs(files) ==
    LET done == [n \in SCRIPT_FILES |->
                    IF n \in Present(files) THEN update_script_paths(files.scripts[n])
                    ELSE [script |-> files.scripts[n], success |-> TRUE, written |-> FALSE]]
        all_success == \A n \in SCRIPT_FILES : done[n].success
    IN  [fs |-> [marker |-> files.marker \/ all_success,
                 outputs |-> TRUE,
                 scripts |-> [n \in SCRIPT_FILES |-> done[n].script]],
         returned |-> all_success,
         written |-> {n \in SCRIPT_FILES : done[n].written},
         ran_setup |-> TRUE]

\* setup_calls with one more call
SetupCalled(fn, r) ==
    Append(setup_calls,
           [fn |-> fn, before |-> fs, after |-> r.fs, returned |-> r.returned,
            written |-> r.written, ran_setup |-> r.ran_setup])

setup_outputs ==
    /\ fs # None /\ Len(setup_calls) < MaxSetupCalls
    /\ LET r == run_setup_outputs(fs)
       IN  fs' = r.fs /\ setup_calls' = SetupCalled("setup_outputs", r)
    /\ UNCHANGED setup_frame

\* with the marker present get_outputs_dir() makes the folder if it is not
\* there, and the test of its existence comes after
check_and_setup_if_needed ==
    /\ fs # None /\ Len(setup_calls) < MaxSetupCalls
    /\ LET r == IF fs.marker
                THEN [fs |-> [fs EXCEPT !.outputs = TRUE], returned |-> TRUE,
                      written |-> {}, ran_setup |-> FALSE]
                ELSE run_setup_outputs(fs)
       IN  fs' = r.fs /\ setup_calls' = SetupCalled("check_and_setup_if_needed", r)
    /\ UNCHANGED setup_frame

force_reconfigure ==
    /\ fs # None /\ Len(setup_calls) < MaxSetupCalls
    /\ LET r == run_setup_outputs([fs EXCEPT !.marker = FALSE])
       IN  fs' = r.fs /\ setup_calls' = SetupCalled("force_reconfigure", r)
    /\ UNCHANGED setup_frame

\* the user deletes the Outputs folder between two calls
delete_outputs ==
    /\ fs # None /\ fs.outputs
    /\ fs' = [fs EXCEPT !.outputs = FALSE]
    /\ UNCHANGED <<setup_calls, setup_frame>>

--------------------------------------------------------------------------
(* The mission tab (gui_components.py, main_app.py)                        *)

\* no session
GuiIdle ==
    session_state = None /\ triggers = {} /\ gui_pc = "idle" /\ gui_log = <<>>

\* largest number of clicks
MaxClicks == 4

\* st.session_state: for each key whether it is there and true
EmptySession ==
    [cancel_gmat_execution |-> FALSE, ity_mission_complete |-> FALSE,
     ity_error |-> FALSE]

\* a new session with the mission tab shown
GuiInit ==
    /\ session_state = EmptySession
    /\ triggers = {}
    /\ gui_pc = "ready"
    /\ gui_log = <<>>

\* the buttons for which st.button returns True in the script run kept for
\* the whole run
Triggers_kept(clicked, running) == {clicked} \cup running

\* the buttons for which st.button returns True in the script run a click
\* starts: the button clicked, whatever the run the click broke off
Triggers(clicked, running) == {clicked}

\* the script of the tab from its top to the call of phase 1 (lines
\* 701-787): the session state after it, where it stands, whether it goes
\* on to run_heliocentric_mission
ScriptStart(T, ss) ==
    IF "run_ity_mission" \notin T
    THEN [ss |-> ss, pc |-> "ready", heliocentric |-> FALSE]
    ELSE LET ss1 == IF "cancel_gmat" \in T
                    THEN [ss EXCEPT !.cancel_gmat_execution = TRUE]
                    ELSE ss
         IN  IF ss1.cancel_gmat_execution
             THEN [ss |-> ss1, pc |-> "ready", heliocentric |-> FALSE]
             ELSE [ss |-> ss1, pc |-> "phase1", heliocentric |-> TRUE]

\* a click: the call in progress returns, the script run stops at its next
\* Streamlit command, and the script runs again from its top
Click(button, ss) ==
    LET T == Triggers(button, triggers)
        r == ScriptStart(T, ss)
    IN  /\ Len(gui_log) < MaxClicks
        /\ triggers' = T
        /\ session_state' = r.ss
        /\ gui_pc' = r.pc
        /\ gui_log' = Append(gui_log, [click |-> button, at |-> gui_pc,
                                       flag |-> ss.cancel_gmat_execution,
                                       heliocentric |-> r.heliocentric])
        /\ UNCHANGED gui_frame

\* the button "Ejecutar Misión Interplanetaria Completa"
click_run_ity_mission ==
    /\ gui_pc # "idle"
    /\ Click("run_ity_mission", session_state)

\* the button "Cancelar Ejecución", on the page while a mission runs
click_cancel_gmat ==
    /\ gui_pc \in {"phase1", "phase2", "phase3"}
    /\ Click("cancel_gmat", session_state)

\* the button "Reiniciar Aplicación" of main_app: session_state.clear()
click_restart ==
    /\ gui_pc # "idle"
    /\ Click("restart", EmptySession)

\* the call of a phase returns or raises and the script goes on to the next
\* phase (lines 787-870)
mission_phase ==
    /\ gui_pc \in {"phase1", "phase2", "phase3"}
    /\ \E outcome \in {"returned", "raised"} :
          IF outcome = "raised"
          THEN /\ gui_pc' = "ready"
               /\ session_state' =
                     IF session_state.cancel_gmat_execution THEN session_state
                     ELSE [session_state EXCEPT !.ity_error = TRUE]
          ELSE IF session_state.cancel_gmat_execution
          THEN gui_pc' = "ready" /\ UNCHANGED session_state
          ELSE IF gui_pc = "phase3"
          THEN /\ gui_pc' = "ready"
               /\ session_state' = [session_state EXCEPT !.ity_mission_complete = TRUE]
          ELSE /\ gui_pc' = (IF gui_pc = "phase1" THEN "phase2" ELSE "phase3")
               /\ UNCHANGED session_state
    /\ UNCHANGED <<triggers, gui_log, gui_frame>>

--------------------------------------------------------------------------
(* Specifications                                                          *)

vars == <<cauchy_vars, rhs_vars, stab_vars, lib_vars, mission_vars, setup_vars, gui_vars>>

\* integrate_cauchy on the oscillator right-hand sides
Init == CauchyInit /\ RhsIdle /\ StabIdle /\ LibIdle /\ MissionIdle /\ SetupIdle /\ GuiIdle

Next == CauchyNext

Spec == Init /\ [][Next]_vars

\* the implicit schemes and the status of their solver
InitImplicit == CauchyIdle /\ RhsIdle /\ StabIdle /\ ImplicitInit /\ MissionIdle /\ SetupIdle /\ GuiIdle

NextImplicit == implicit_steps

SpecImplicit == InitImplicit /\ [][NextImplicit]_vars

\* the stability helpers of hito_6
InitLib == CauchyIdle /\ RhsIdle /\ StabIdle /\ LibInit /\ MissionIdle /\ SetupIdle /\ GuiIdle

NextLib == Call_classify_stability \/ jacobian_numerical

SpecLib == InitLib /\ [][NextLib]_vars

\* the phases of an interplanetary mission, called in any order
InitMission == CauchyIdle /\ RhsIdle /\ StabIdle /\ LibIdle /\ MissionInit /\ SetupIdle /\ GuiIdle

NextMission ==
    \/ run_heliocentric_mission
    \/ calculate_transfer_parameters
    \/ run_transfer_mission
    \/ run_complete_mission

SpecMission == InitMission /\ [][NextMission]_vars

\* the schemes and the stability analyzer on the test equation
InitTest == CauchyIdle /\ RhsIdle /\ StabIdle /\ TestInit /\ MissionIdle /\ SetupIdle /\ GuiIdle

NextTest == Call_test_equation

SpecTest == InitTest /\ [][NextTest]_vars

\* simulate_nbody with and without its scheme argument
InitSim == CauchyIdle /\ RhsIdle /\ StabIdle /\ SimInit /\ MissionIdle /\ SetupIdle /\ GuiIdle

NextSim == simulate_nbody \/ CauchyNext

SpecSim == InitSim /\ [][NextSim]_vars

\* the clicks on the mission tab
InitGui ==
    CauchyIdle /\ RhsIdle /\ StabIdle /\ LibIdle /\ MissionIdle /\ SetupIdle /\ GuiInit

NextGui ==
    \/ click_run_ity_mission
    \/ click_cancel_gmat
    \/ click_restart
    \/ mission_phase

SpecGui == InitGui /\ [][NextGui]_vars

\* generate_script called on templates
InitGenerate == CauchyIdle /\ RhsIdle /\ StabIdle /\ GenerateInit /\ MissionIdle /\ SetupIdle /\ GuiIdle

NextGenerate == Call_generate_script

SpecGenerate == InitGenerate /\ [][NextGenerate]_vars

\* the setup functions called in any order
InitSetup == CauchyIdle /\ RhsIdle /\ StabIdle /\ LibIdle /\ MissionIdle /\ SetupInit /\ GuiIdle

NextSetup ==
    \/ setup_outputs
    \/ check_and_setup_if_needed
    \/ force_reconfigure
    \/ delete_outputs

SpecSetup == InitSetup /\ [][NextSetup]_vars

\* the gravitational right-hand sides called directly
InitRhs == CauchyIdle /\ RhsInit /\ StabIdle /\ LibIdle /\ MissionIdle /\ SetupIdle /\ GuiIdle

NextRhs == RhsNext

SpecRhs == InitRhs /\ [][NextRhs]_vars

\* nbody_rhs called directly and through integrate_cauchy
InitNBody ==
    \/ NBodyInit /\ RhsIdle /\ StabIdle /\ LibIdle /\ MissionIdle /\ SetupIdle /\ GuiIdle
    \/ /\ CauchyIdle /\ StabIdle /\ LibIdle /\ MissionIdle /\ SetupIdle /\ GuiIdle
       /\ rhs_pc = "call" /\ rhs_call \in NBodyCalls /\ rhs_out = <<>>

NextNBody == CauchyNext \/ Call_nbody_rhs

SpecNBody == InitNBody /\ [][NextNBody]_vars

\* the oscillator integrated by the schemes of run_hito4
InitOsc == OscInit /\ RhsIdle /\ StabIdle /\ LibIdle /\ MissionIdle /\ SetupIdle /\ GuiIdle

NextOsc == CauchyNext

SpecOsc == InitOsc /\ [][NextOsc]_vars

\* convergence studies
InitConv == CauchyIdle /\ RhsIdle /\ StabIdle /\ ConvInit /\ MissionIdle /\ SetupIdle /\ GuiIdle

NextConv == convergence_rate

SpecConv == InitConv /\ [][NextConv]_vars

\* the amplification factors evaluated over the mesh
InitStab == CauchyIdle /\ RhsIdle /\ StabInit /\ LibIdle /\ MissionIdle /\ SetupIdle /\ GuiIdle

NextStab == StabNext

SpecStab == InitStab /\ [][NextStab]_vars

--------------------------------------------------------------------------
(* Properties of the Cauchy driver                                         *)

ValidSpan == RLt(t_span[1], t_span[2]) /\ RLt(R(0), dt)

ExactMultiple == LET q == RDiv(RSub(t_span[2], t_span[1]), dt) IN q[2] = 1

Rows == 0..(n_steps - 1)

\* C1: in one-step mode, for t0 < tf and dt > 0, the call returns a
\* trajectory of exactly floor((tf - t0)/dt) + 1 points whose point 0 is U0
\* (and a one-step scheme never makes the call fail).
C1_OneStepLength ==
    (~is_leapfrog /\ ValidSpan) =>
        /\ (scheme \in OneStepSchemes => pc # "raised")
        /\ pc = "returned" =>
              /\ n_steps = Floor(RDiv(RSub(t_span[2], t_span[1]), dt)) + 1
              /\ DOMAIN U_array = Rows
              /\ DOMAIN t_array = Rows
              /\ U_array[0] = U0

C1_Witness ==
    /\ pc = "returned" /\ ~is_leapfrog /\ ValidSpan
    /\ scheme = "RK4" /\ ~ExactMultiple /\ n_steps >= 2

\* C2: the time attached to point k of a returned trajectory is t0 + k*dt,
\* so the last time is below tf when (tf - t0) is no multiple of dt.
C2_TimesSpacedByDt ==
    (pc = "returned" /\ ValidSpan) =>
        /\ \A k \in Rows : t_array[k] = RAdd(t_span[1], RMul(R(k), dt))
        /\ ~ExactMultiple => RLt(t_array[n_steps - 1], t_span[2])

\* C3: in two-step mode point 0 is U0 and point 1 is one explicit-Euler step
\* from U0, U0 + dt*F(U0, t0).
C3_Bootstrap ==
    (is_leapfrog /\ pc \in {"leapfrog", "returned"}) =>
        /\ U_array[0] = U0
        /\ U_array[1] = VAdd(U0, VScale(dt, FApply(F, U0, t_span[1])))

C3_Witness ==
    /\ is_leapfrog /\ pc = "returned" /\ scheme = "Leap_Frog"
    /\ F.name = "forced_rhs" /\ t_span[1] # R(0) /\ n_steps >= 3

\* C4: in two-step mode every point k+1 with k >= 1 is
\* U[k-1] + 2*dt*F(U[k], t[k]).
C4_LeapFrogRecurrence ==
    (is_leapfrog /\ scheme = "Leap_Frog" /\ pc \in {"leapfrog", "returned"}) =>
        \A k \in 1..(i - 1) :
            U_array[k + 1] =
                VAdd(U_array[k - 1],
                     VScale(RMul(R(2), dt), FApply(F, U_array[k], t_array[k])))

C4_Witness ==
    /\ is_leapfrog /\ scheme = "Leap_Frog" /\ pc = "returned"
    /\ n_steps >= 4 /\ i = n_steps - 1 /\ F.name = "forced_rhs"

\* C5: in one-step mode the scheme is called exactly n-1 times, in
\* increasing index order, call k on point k and time k, and its result is
\* point k+1.
C5_OneStepCalls ==
    (~is_leapfrog /\ scheme \in OneStepSchemes /\ pc = "returned") =>
        /\ Len(calls) = n_steps - 1
        /\ \A k \in 0..(n_steps - 2) :
              /\ calls[k + 1] = [fn |-> scheme, U |-> U_array[k], t |-> t_array[k]]
              /\ U_array[k + 1] = CallOneStep(scheme, U_array[k], t_array[k], dt, F)

C5_Witness ==
    /\ ~is_leapfrog /\ scheme = "RK4" /\ pc = "returned"
    /\ n_steps >= 4 /\ Len(calls) = 3

\* C12: no scheme call and no driver step modifies its inputs: the caller's
\* U0 (with the other arguments) stays as passed, and once point i of the
\* trajectory is written no later step changes points 0..i nor the times.
C12_InputsNotModified ==
    [][/\ cauchy_inputs' = cauchy_inputs
       /\ pc # "setup" =>
             /\ t_array' = t_array
             /\ DOMAIN U_array' = DOMAIN U_array
             /\ \A k \in DOMAIN U_array : k <= i => U_array'[k] = U_array[k]
       /\ pc' = "returned" => U_array'[0] = U0]_vars

C12_Witness ==
    /\ pc = "returned" /\ i >= 2 /\ n_steps = i + 1
    /\ U_array[0] = U0 /\ U_array[1] # U_array[0] /\ U_array[2] # U_array[1]

\* C6: a step dt <= 0 or a span with tf <= t0 is rejected before the scheme
\* or the right-hand side is evaluated, and no trajectory is returned.
C6_RejectsBadSpan ==
    (RLe(dt, R(0)) \/ RLe(t_span[2], t_span[1])) =>
        /\ pc # "returned"
        /\ calls = <<>>
        /\ rhs_evals = 0

Mismatch ==
    \/ ~is_leapfrog /\ scheme = "Leap_Frog"
    \/ is_leapfrog /\ scheme \in OneStepSchemes

\* C7: a scheme that does not fit the mode is rejected at the driver
\* boundary, before any scheme call, and no trajectory is returned.
C7_RejectsMismatch ==
    (Mismatch /\ ValidSpan) =>
        /\ pc # "returned"
        /\ calls = <<>>
        /\ rhs_evals = 0

--------------------------------------------------------------------------
(* Properties of the gravitational right-hand sides                        *)

\* P_total = np.sum(masses[:, None] * vel, axis=0)
Momentum(U, masses) ==
    LET N   == Len(masses)
        vel == BodyVel(U, N)
        RECURSIVE Upto(_)
        Upto(b) == IF b < 0 THEN VZero(3)
                   ELSE VAdd(Upto(b - 1), VScale(masses[b + 1], vel[b]))
    IN  Upto(N - 1)

\* the separations the call divides by
Separations(c) ==
    CASE c.fn = "kepler_rhs" ->
            {RSqrt(RAdd(RMul(c.U[1], c.U[1]), RMul(c.U[2], c.U[2])))}
      [] c.fn \in {"crtbp_rhs", "arenstorf_rhs"} ->
            {Norm(<<RAdd(c.U[1], c.mu), c.U[2]>>),
             Norm(<<RAdd(RSub(c.U[1], R(1)), c.mu), c.U[2]>>)}
      [] c.fn = "nbody_rhs" ->
            LET pos   == BodyPos(c.U, Len(c.masses))
                pairs == {q \in (0..(Len(c.masses) - 1)) \X (0..(Len(c.masses) - 1)) :
                            q[1] # q[2]}
            IN  {Norm(VSub(pos[q[1]], pos[q[2]])) : q \in pairs}

CloseEncounter(c) == \E d \in Separations(c) : BelowThreshold(d)

\* C8: every gravitational right-hand side returns a finite derivative when
\* a separation is below 1e-10, the contribution of that separation being
\* zero (for kepler_rhs: zero acceleration).
C8_SingularityClamped ==
    (rhs_pc = "done" /\ CloseEncounter(rhs_call)) =>
        /\ VFinite(rhs_out)
        /\ rhs_call.fn = "kepler_rhs" => rhs_out[3] = R(0) /\ rhs_out[4] = R(0)

\* the part of C8 that kepler_rhs and nbody_rhs, which hold the guard, meet
C8_GuardedFunctionsFinite ==
    (rhs_pc = "done" /\ rhs_call.fn \in {"kepler_rhs", "nbody_rhs"}) =>
        /\ VFinite(rhs_out)
        /\ (rhs_call.fn = "kepler_rhs" /\ CloseEncounter(rhs_call)) =>
              rhs_out[3] = R(0) /\ rhs_out[4] = R(0)

\* rows of the trajectory written so far
Written == (DOMAIN U_array) \cap (0..i)

\* C9: the accelerations nbody_rhs returns satisfy sum_i m_i*a_i = 0, for
\* direct calls and at the trajectory points the run evaluated, coincident
\* bodies included, and a run started with zero total linear momentum has
\* zero total linear momentum at every trajectory point.
C9_MomentumConserved ==
    /\ (rhs_pc = "done" /\ rhs_call.fn = "nbody_rhs") =>
          Momentum(rhs_out, rhs_call.masses) = VZero(3)
    /\ F.name = "nbody_rhs" =>
          \A k \in Written :
              /\ k < i =>
                    Momentum(nbody_rhs(U_array[k], t_array[k], F.masses, F.G),
                             F.masses) = VZero(3)
              /\ Momentum(U0, F.masses) = VZero(3) =>
                    Momentum(U_array[k], F.masses) = VZero(3)

C9_Witness ==
    /\ F.name = "nbody_rhs" /\ pc = "returned" /\ n_steps >= 2
    /\ Momentum(U0, F.masses) = VZero(3)
    /\ U_array[n_steps - 1] # U0
    /\ BodyVel(U_array[n_steps - 1], Len(F.masses))[0] # BodyVel(U0, Len(F.masses))[0]
    /\ \E a, b \in 0..(Len(F.masses) - 1) :
          a # b /\ BodyPos(U0, Len(F.masses))[a] = BodyPos(U0, Len(F.masses))[b]

--------------------------------------------------------------------------
(* Properties of the amplification factors                                 *)

\* C10: at z = 0 every amplification factor has modulus exactly 1 and
\* stable_leapfrog(0) is true, both roots having modulus 1.
C10_MarginalAtZero ==
    (stab_pc = "done" /\ stab_call.z = C(R(0), R(0))) =>
        /\ stab_call.fn \in GNames => CAbs(stab_out) = R(1)
        /\ stab_call.fn = "stable_leapfrog" =>
              /\ stab_out = TRUE
              /\ \A k \in 1..2 : CAbs(LeapfrogRoots(stab_call.z)[k]) = R(1)

C10_Witness ==
    /\ stab_pc = "done" /\ stab_call.z = C(R(0), R(0))
    /\ stab_call.fn = "stable_leapfrog"

\* the closed disc |1 + z| <= 1, the complement of the open disc |1 - z| < 1
\* and the closed left half-plane, written on the coordinates of z
InEulerDisc(z) ==
    RLe(RAdd(RMul(RAdd(R(1), z[1]), RAdd(R(1), z[1])), RMul(z[2], z[2])), R(1))

OutsideInverseEulerDisc(z) ==
    RLe(R(1), RAdd(RMul(RSub(R(1), z[1]), RSub(R(1), z[1])), RMul(z[2], z[2])))

InLeftHalfPlane(z) == RLe(z[1], R(0))

\* C11: the mask of a scheme at a mesh point is true exactly when
\* |G(z)| <= 1, the boundary included; for explicit Euler |G(-1)| = 0,
\* |G(-2)| = 1 (both stable) and |G(1)| = 2 (unstable).
C11_MaskIsClosedRegion ==
    /\ (stab_pc = "done" /\ stab_call.fn = "criterion"
            /\ stab_call.name # "Leap-Frog") =>
          LET z == stab_call.z
              name == stab_call.name
          IN  /\ stab_out \in BOOLEAN
              /\ stab_out <=> RLe(AbsSq(MethodG(name, z)), R(1))
              /\ name = "Euler" => (stab_out <=> InEulerDisc(z))
              /\ name = "Euler Inverso" => (stab_out <=> OutsideInverseEulerDisc(z))
              /\ name = "Crank-Nicolson" => (stab_out <=> InLeftHalfPlane(z))
              /\ (name = "Euler" /\ z = C(R(-1), R(0))) => stab_out = TRUE
              /\ (name = "Euler" /\ z = C(R(-2), R(0))) => stab_out = TRUE
              /\ (name = "Euler" /\ z = C(R(1), R(0))) => stab_out = FALSE
    /\ (stab_pc = "done" /\ stab_call.fn = "G_euler") =>
          /\ stab_call.z = C(R(-1), R(0)) => CAbs(stab_out) = R(0)
          /\ stab_call.z = C(R(-2), R(0)) => CAbs(stab_out) = R(1)
          /\ stab_call.z = C(R(1), R(0)) => CAbs(stab_out) = R(2)

C11_Witness ==
    /\ stab_pc = "done" /\ stab_call.fn = "criterion"
    /\ stab_call.name = "Euler" /\ stab_call.z = C(R(-2), R(0))
    /\ stab_out = TRUE

--------------------------------------------------------------------------
(* Energy of the oscillator runs                                           *)

\* the points of the trajectory computed so far
Computed == IF pc \in {"setup", "raised"} THEN {} ELSE 0..i

EnergyAt(k) == oscillator_energy(U_array[k])

EnergyIncreasing == \A k \in Computed \ {0} : RLt(EnergyAt(k - 1), EnergyAt(k))

EnergyDecreasing == \A k \in Computed \ {0} : RLt(EnergyAt(k), EnergyAt(k - 1))

\* a band a hundred initial energies wide
InWideBand(E) == RLe(R(0), E) /\ RLe(E, R(50))

\* the band [1/2, 1/(2(1 - dt^2))] of Leap_Frog started with Euler, dt < 1
InLeapFrogBand(E) ==
    /\ RLe(Rat(1, 2), E)
    /\ RLe(E, RDiv(R(1), RMul(R(2), RSub(R(1), RMul(dt, dt)))))

OscillatorRun == F.name = "oscillator_rhs" /\ U0 = <<R(1), R(0)>> /\ RLt(R(0), dt)

--------------------------------------------------------------------------
(* Convergence studies                                                     *)

ConvDone == lib_pc = "done" /\ lib_call.fn = "convergence_rate"

\* np.linalg.norm(e)**2 on a grid of 1e-4
NormSq(e) ==
    LET c(k) == ToDec(e[k]) \div 1000
    IN  c(1) * c(1) + c(2) * c(2)

\* order stated by the docstring of each scheme
NominalOrder(s) ==
    CASE s = "Euler" -> 1
      [] s = "Leap_Frog" -> 2
      [] s = "RK89" -> 8

\* 2^(p - 1/2) <= |Ei| / |Ej| <= 2^(p + 1/2) for a halved step: the rate
\* of the entry is within one half of p
RateNear(r, p) ==
    LET Ni == NormSq(r.Ei)
        Nj == NormSq(r.Ej)
        lo == 2 ^ (2 * p - 1)
        hi == 2 ^ (2 * p + 1)
    IN  /\ Nj > 0
        /\ Nj <= Ni \div lo
        /\ (Ni + hi - 1) \div hi <= Nj

\* a study of the oscillator from x = 1, v = 0 over one time unit against
\* the refined run, the steps halved successively
OrderStudy ==
    /\ ConvDone
    /\ lib_call.F.name = "oscillator_rhs"
    /\ lib_call.U0 = <<R(1), R(0)>>
    /\ lib_call.U_exact.name = "None"
    /\ lib_call.t_span = <<R(0), R(1)>>
    /\ \A k \in 1..(Len(lib_call.dt_values) - 1) :
           lib_call.dt_values[k] = RMul(R(2), lib_call.dt_values[k + 1])

\* C14: the rates convergence_rate returns for the oscillator are near the
\* nominal order of the scheme: 1 for Euler, 2 for Leap_Frog, 8 for RK89
C14_ConvergenceOrders ==
    OrderStudy =>
        \A k \in 1..Len(lib_out.rates) :
            RateNear(lib_out.rates[k], NominalOrder(lib_call.scheme))

\* the rates of Euler and Leap_Frog are near their nominal orders
C14_LowOrderSchemes ==
    (OrderStudy /\ lib_call.scheme # "RK89") =>
        \A k \in 1..Len(lib_out.rates) :
            RateNear(lib_out.rates[k], NominalOrder(lib_call.scheme))

\* the entry of pair k
PairRate(k) ==
    [Ei |-> lib_out.errors[k], Ej |-> lib_out.errors[k + 1],
     dti |-> lib_call.dt_values[k], dtj |-> lib_call.dt_values[k + 1]]

\* C16: convergence_rate returns one error per step size and one rate per
\* consecutive pair of steps: rates has len(dt_values) - 1 entries and entry i
\* is the rate of pair i
C16_RatePerPair ==
    ConvDone =>
        /\ Len(lib_out.errors) = Len(lib_call.dt_values)
        /\ Len(lib_out.rates) = Len(lib_call.dt_values) - 1
        /\ \A k \in 1..Len(lib_out.rates) : lib_out.rates[k] = PairRate(k)

\* one error per step size; one rate per pair when no later error is zero
C16_RatePerPairPositiveErrors ==
    ConvDone =>
        /\ Len(lib_out.errors) = Len(lib_call.dt_values)
        /\ (\A k \in 2..Len(lib_out.errors) : Positive(lib_out.errors[k]))
            => /\ Len(lib_out.rates) = Len(lib_call.dt_values) - 1
               /\ \A k \in 1..Len(lib_out.rates) : lib_out.rates[k] = PairRate(k)

\* a rate filed under the wrong pair: the pair before it was skipped
C16_Misfiled ==
    /\ ConvDone
    /\ Len(lib_out.errors) = 3
    /\ Len(lib_out.rates) = 1
    /\ lib_out.rates[1] = PairRate(2)
    /\ lib_out.rates[1] # PairRate(1)

--------------------------------------------------------------------------
(* Solver failures of the implicit schemes                                 *)

ImplicitDone == lib_pc = "done" /\ lib_call.fn = "implicit_steps"

\* what the caller of the k-th scheme call can observe
Observed(k) == [returned |-> lib_out[k].returned,
                raised |-> lib_out[k].raised,
                shown |-> lib_out[k].shown]

\* C15: when fsolve does not converge inside Inverse_Euler or Crank_Nicolson
\* the call raises a labeled error or comes with a warning; the caller is
\* never left with a result that looks like a converged one.
C15_NonConvergenceSurfaced ==
    ImplicitDone =>
        \A k \in 1..Len(lib_out) :
            lib_out[k].ier # 1 =>
                lib_out[k].raised # "none" \/ lib_out[k].shown # {}

\* the first failure at a location is the only one that is shown
C15_FirstFailureShown ==
    ImplicitDone =>
        \A k \in 1..Len(lib_out) :
            (lib_out[k].ier # 1 /\ \A j \in 1..(k - 1) : lib_out[j].ier = 1)
                => lib_out[k].shown # {}

\* a failed call whose caller sees what the caller of a converged call sees
C15_SilentFailure ==
    /\ ImplicitDone
    /\ \E k \in 1..Len(lib_out) :
           lib_out[k].ier # 1 /\ Observed(k).raised = "none" /\ Observed(k).shown = {}

--------------------------------------------------------------------------
(* Stability helpers                                                       *)

ClassifyDone == lib_pc = "done" /\ lib_call.fn = "classify_stability"

\* every real part lies strictly between -tol and tol
WithinTol(evals, tol) ==
    \A k \in 1..Len(evals) :
        RLt(RNeg(tol), evals[k][1]) /\ RLt(evals[k][1], tol)

\* C17: classify_stability answers "estable (centro)" exactly when the real
\* part of every eigenvalue is smaller than tol in magnitude (tol = 1e-8
\* unless given), and "inestable (silla)" otherwise.
C17_ClassifyByRealParts ==
    ClassifyDone =>
        /\ lib_out \in {"estable (centro)", "inestable (silla)"}
        /\ lib_out = "estable (centro)" <=>
               WithinTol(lib_call.evals,
                         IF lib_call.tol = "default" THEN Rat(1, 100000000)
                         ELSE lib_call.tol)

\* a default-tolerance call with one real part on the tolerance and the
\* other inside it, classified unstable
C17_OnTolerance ==
    /\ ClassifyDone
    /\ lib_call.tol = "default"
    /\ Len(lib_call.evals) = 2
    /\ lib_call.evals[1][1] = Rat(1, 100000000)
    /\ lib_call.evals[2][1] = Rat(-1, 1000000000)
    /\ lib_out = "inestable (silla)"

JacobianDone == lib_pc = "done" /\ lib_call.fn = "jacobian_numerical"

\* U + h e_j
Shifted(U, j, h) == [k \in 1..Len(U) |-> IF k = j THEN RAdd(U[k], h) ELSE U[k]]

\* C18: jacobian_numerical returns an n x n matrix whose column j is
\* (F(U + h e_j, t) - F(U, t)) / h, evaluates F exactly n + 1 times, leaves
\* the caller's U as it was, and for F(U) = A U returns A.
C18_ForwardDifferenceJacobian ==
    JacobianDone =>
        LET c == lib_call
            n == Len(c.U)
            h == IF c.h = "default" THEN Rat(1, 1000000) ELSE c.h
            J == lib_out.J
        IN  /\ Len(J) = n
            /\ \A r \in 1..n : Len(J[r]) = n
            /\ \A r, j \in 1..n :
                   RMul(J[r][j], h) = RSub(FApply(c.F, Shifted(c.U, j, h), c.t)[r],
                                           FApply(c.F, c.U, c.t)[r])
            /\ lib_out.evals = n + 1
            /\ lib_out.U = c.U
            /\ c.F.name = "matrix_rhs" => J = c.F.A

\* a 3 x 3 linear system differentiated with the default step
C18_LinearDefaultStep ==
    /\ JacobianDone
    /\ lib_call.F.name = "matrix_rhs"
    /\ lib_call.h = "default"
    /\ Len(lib_call.U) = 3
    /\ lib_call.U # <<R(0), R(0), R(0)>>
    /\ lib_out.J = lib_call.F.A
    /\ lib_out.evals = 4

--------------------------------------------------------------------------
(* Order of the mission phases                                             *)

\* some call of the method before the k-th call returned normally
Succeeded(method, k) ==
    \E j \in 1..(k - 1) : history[j].method = method /\ history[j].raised = "none"

\* C20: calculate_transfer_parameters raises GmatBackendError unless an
\* earlier run_heliocentric_mission produced the hyperbolic velocities, and
\* run_transfer_mission raises GmatBackendError unless an earlier
\* calculate_transfer_parameters produced the Redson parameters.
C20_PhasesInOrder ==
    \A k \in 1..Len(history) :
        /\ (/\ history[k].method = "calculate_transfer_parameters"
            /\ ~Succeeded("run_heliocentric_mission", k))
               => history[k].raised = "GmatBackendError"
        /\ (/\ history[k].method = "run_transfer_mission"
            /\ ~Succeeded("calculate_transfer_parameters", k))
               => history[k].raised = "GmatBackendError"

\* the transfer refused after the heliocentric phase alone, then the phases
\* completed in order
C20_RefusedThenCompleted ==
    /\ Len(history) = 4
    /\ history[1] = [method |-> "run_heliocentric_mission", raised |-> "none"]
    /\ history[2] = [method |-> "run_transfer_mission", raised |-> "GmatBackendError"]
    /\ history[3] = [method |-> "calculate_transfer_parameters", raised |-> "none"]
    /\ history[4] = [method |-> "run_transfer_mission", raised |-> "none"]
    /\ self.final_results = [header |-> "results"]

\* the k-th call was run_complete_mission
Complete(k) == history[k].method = "run_complete_mission"

\* C21: run_complete_mission raises GmatBackendError if any of its three
\* stages fails, and returns status 'success' only when the heliocentric
\* script run, the parameter calculation and the transfer script run all
\* succeeded.
C21_SuccessMeansAllStages ==
    \A k \in 1..Len(history) :
        Complete(k) =>
            /\ (\E n \in 1..3 : ~history[k].stages[n])
                   => history[k].raised = "GmatBackendError"
            /\ history[k].raised = "none"
                   => /\ history[k].returned.status = "success"
                      /\ \A n \in 1..3 : history[k].stages[n]

\* the failures of the first two stages, and of the transfer before its
\* script runs, are raised
C21_EarlyFailuresRaised ==
    \A k \in 1..Len(history) :
        (Complete(k) /\ (~history[k].stages[1] \/ ~history[k].stages[2]))
            => history[k].raised = "GmatBackendError"

\* 'success' returned although RunScript failed on the transfer script and
\* no final results were read
C21_SuccessWithoutTransfer ==
    \E k \in 1..Len(history) :
        /\ Complete(k)
        /\ history[k].raised = "none"
        /\ history[k].returned = [status |-> "success", final_results |-> None]
        /\ ~history[k].stages[3]

\* the heliocentric call made last before the k-th call
LastHeliocentric(k) ==
    CHOOSE j \in 1..(k - 1) :
        /\ history[j].method = "run_heliocentric_mission"
        /\ \A m \in (j + 1)..(k - 1) : history[m].method # "run_heliocentric_mission"

\* C27: calculate_transfer_parameters succeeds only if the most recent
\* run_heliocentric_mission call succeeded; after a failed heliocentric run
\* it raises GmatBackendError even if an earlier run had succeeded.
C27_NoStaleVelocities ==
    \A k \in 1..Len(history) :
        (/\ history[k].method = "calculate_transfer_parameters"
         /\ history[k].raised = "none")
            => /\ \E j \in 1..(k - 1) : history[j].method = "run_heliocentric_mission"
               /\ history[LastHeliocentric(k)].raised = "none"

\* the parameters computed after a failed heliocentric run, from the
\* velocities of the run before it
C27_StaleVelocitiesUsed ==
    /\ Len(history) >= 3
    /\ history[1] = [method |-> "run_heliocentric_mission", raised |-> "none"]
    /\ history[2] = [method |-> "run_heliocentric_mission", raised |-> "GmatBackendError"]
    /\ history[3] = [method |-> "calculate_transfer_parameters", raised |-> "none"]

--------------------------------------------------------------------------
(* Setup of the Outputs folder                                             *)

\* the k-th call was check_and_setup_if_needed with the marker present
CheckConfigured(k) ==
    setup_calls[k].fn = "check_and_setup_if_needed" /\ setup_calls[k].before.marker

\* C22: with the marker present and the Outputs folder deleted,
\* check_and_setup_if_needed removes the marker and runs setup_outputs again;
\* with the marker and the folder present it returns True and touches no
\* script.
C22_ReconfiguresWhenFolderGone ==
    \A k \in 1..Len(setup_calls) :
        CheckConfigured(k) =>
            IF setup_calls[k].before.outputs
            THEN /\ setup_calls[k].returned
                 /\ setup_calls[k].written = {}
                 /\ ~setup_calls[k].ran_setup
            ELSE setup_calls[k].ran_setup

\* with the marker present nothing is written, folder or no folder
C22_ConfiguredLeftAlone ==
    \A k \in 1..Len(setup_calls) :
        CheckConfigured(k) =>
            /\ setup_calls[k].returned
            /\ setup_calls[k].written = {}
            /\ setup_calls[k].after.scripts = setup_calls[k].before.scripts
            /\ setup_calls[k].after.marker

\* the folder deleted after a setup, and the next start leaving all as it is
C22_FolderGoneNoSetup ==
    \E k \in 1..Len(setup_calls) :
        /\ CheckConfigured(k)
        /\ ~setup_calls[k].before.outputs
        /\ ~setup_calls[k].ran_setup
        /\ setup_calls[k].after.outputs

\* the scripts the k-th call brought to the Outputs folder: written, with
\* every ReportFile path in that folder
Updated(k) ==
    {n \in SCRIPT_FILES :
        /\ n \in setup_calls[k].written
        /\ \A m \in 1..Len(setup_calls[k].after.scripts[n].reports) :
               setup_calls[k].after.scripts[n].reports[m].dir = "Outputs"}

\* C28: after any calls of setup_outputs, check_and_setup_if_needed and
\* force_reconfigure the marker exists only if the last setup updated every
\* script of SCRIPT_FILES; a setup in which a script was missing or not
\* updated leaves no marker and returns False.
C28_MarkerMeansAllUpdated ==
    \A k \in 1..Len(setup_calls) :
        (setup_calls[k].ran_setup /\ Updated(k) # SCRIPT_FILES)
            => ~setup_calls[k].after.marker /\ ~setup_calls[k].returned

\* a setup that returns False writes no marker of its own
C28_FailedSetupWritesNoMarker ==
    \A k \in 1..Len(setup_calls) :
        (setup_calls[k].ran_setup /\ ~setup_calls[k].returned)
            => setup_calls[k].after.marker = setup_calls[k].before.marker
               \/ setup_calls[k].fn = "force_reconfigure"

\* a first setup with a script missing that writes the marker
C28_MarkerWithMissingScript ==
    /\ Len(setup_calls) = 1
    /\ setup_calls[1].ran_setup
    /\ \E n \in SCRIPT_FILES : ~setup_calls[1].before.scripts[n].exists
    /\ setup_calls[1].returned
    /\ fs.marker

--------------------------------------------------------------------------
(* GmatScriptGenerator                                                     *)

\* the value generate_script gives to a name in the call, <<>> for a name
\* it leaves alone
Supplied(a, name) ==
    LET list == Replacements(a)
        hits == {k \in 1..Len(list) :
                    /\ list[k][4]
                    /\ name = (IF list[k][1] = "" THEN list[k][2]
                               ELSE list[k][1] \o "." \o list[k][2])}
    IN  IF hits = {} THEN <<>> ELSE <<list[CHOOSE k \in hits : TRUE][3]>>

\* a line that assigns to its first word
Assigns(line) == Len(line) >= 3 /\ line[2] = " " /\ line[3] = "="

\* the line with the value in the place of all between "= " and ";"
WithValue(line, value) == <<line[1], " ", "=", " ", value, ";">>

GenerateDone == lib_pc = "done" /\ lib_call.fn = "generate_script"

\* C23: in the script generate_script returns every assignment at a line
\* start to a name it was given a value for carries that value, every other
\* line of the template is as it was, and the template the generator holds
\* is as it was.
C23_OnlyTargetsReplaced ==
    GenerateDone =>
        LET out == splitlines(lib_out, <<>>)
        IN  /\ Len(out) = Len(lib_call.lines)
            /\ \A k \in 1..Len(lib_call.lines) :
                  LET line == lib_call.lines[k]
                  IN  IF Assigns(line) /\ Given(Supplied(lib_call.args, line[1]))
                      THEN out[k] = WithValue(line, Supplied(lib_call.args, line[1])[1])
                      ELSE out[k] = line
            /\ lib_loc.template_content = Text(lib_call.lines)

\* every line of the template closes with ";"
Closed(lines) == \A k \in 1..Len(lines) : lines[k][Len(lines[k])] = ";"

\* the same for the templates whose lines all close with ";"
C23_ClosedLinesReplaced ==
    (GenerateDone /\ Closed(lib_call.lines)) =>
        LET out == splitlines(lib_out, <<>>)
        IN  /\ Len(out) = Len(lib_call.lines)
            /\ \A k \in 1..Len(lib_call.lines) :
                  LET line == lib_call.lines[k]
                  IN  IF Assigns(line) /\ Given(Supplied(lib_call.args, line[1]))
                      THEN out[k] = WithValue(line, Supplied(lib_call.args, line[1])[1])
                      ELSE out[k] = line

\* an assignment without ";" takes the line after it along
C23_LineLost ==
    /\ GenerateDone
    /\ Len(lib_call.lines) = 3
    /\ lib_call.lines[1] = <<"test.SMA", " ", "=", " ", "0">>
    /\ lib_call.lines[2][1] = "TOI.Element1"
    /\ Len(splitlines(lib_out, <<>>)) < 3

--------------------------------------------------------------------------
(* The two-step mode of integrate_cauchy on short spans                    *)

\* C24: in two-step mode integrate_cauchy writes only the rows 0..n-1 of
\* its buffer of n rows, whatever the span and the step, spans shorter than
\* one step (n = 1) included: no write of the bootstrap point fails for
\* being out of range.
C24_TwoStepWritesInRange ==
    (is_leapfrog /\ n_steps >= 1 /\ pc = "raised") => error # "IndexError"

\* with two rows or more no write is out of range
C24_LongSpansInRange ==
    (is_leapfrog /\ n_steps >= 2 /\ pc = "raised") => error # "IndexError"

\* a span shorter than one step: the bootstrap point has no row
C24_BootstrapOutOfRange ==
    /\ is_leapfrog /\ scheme = "Leap_Frog"
    /\ n_steps = 1
    /\ Len(calls) = 1 /\ calls[1].fn = "Euler"
    /\ pc = "raised" /\ error = "IndexError"

--------------------------------------------------------------------------
(* The refined run of convergence_rate                                     *)

\* the refined run of the dt in progress has made all its steps
RefinedRunOver ==
    /\ lib_call.fn = "convergence_rate"
    /\ lib_pc = "integrate"
    /\ lib_loc.run = "dt_refined"
    /\ Len(lib_loc.rows) >= RunN(lib_call, RunDt(lib_call, lib_loc))

\* the steps of the run with dt, and of the refined run as it stands
CoarseSteps == RunN(lib_call, lib_call.dt_values[lib_loc.k]) - 1

RefinedSteps == Len(lib_loc.rows) - 1

\* C25: without an exact solution, for every dt and every span the refined
\* run with dt/2 makes exactly twice the steps of the run with dt, so that
\* the two final states belong to the same elapsed time.
C25_RefinedTwiceTheSteps ==
    RefinedRunOver => RefinedSteps = 2 * CoarseSteps

\* the span is a whole number of steps dt
WholeSteps ==
    RMul(R(CoarseSteps), lib_call.dt_values[lib_loc.k])
        = RSub(lib_call.t_span[2], lib_call.t_span[1])

\* twice the steps when the span is a whole number of steps
C25_TwiceOnWholeSteps ==
    (RefinedRunOver /\ WholeSteps) => RefinedSteps = 2 * CoarseSteps

\* a span of half a step: the run with dt stays at the initial condition,
\* the refined run makes one step
C25_RefinedOneMore ==
    /\ RefinedRunOver
    /\ CoarseSteps = 0
    /\ RefinedSteps = 1
    /\ lib_loc.U = lib_call.U0

--------------------------------------------------------------------------
(* Scheme library and stability analyzer on the test equation              *)

TestDone == lib_pc = "done" /\ lib_call.fn = "test_equation"

\* z = lambda*dt of the call
TestZOf(c) == C(RMul(c.lam[1], c.dt), RMul(c.lam[2], c.dt))

\* r^2 - 2*z*r - 1
LeapfrogPolynomial(z, r) ==
    CSub(CSub(CMul(r, r), CMul(CMul(C(R(2), R(0)), z), r)), COne)

\* C26: for F = lambda*U and z = lambda*dt the step of Euler multiplies the
\* state by G_euler(z) = 1 + z, the step of RK4 by G_rk4(z), and Leap_Frog
\* gives y_{n+1} = 2*z*y_n + y_{n-1}, the recursion of the polynomial
\* r^2 - 2*z*r - 1 whose roots stable_leapfrog takes.
C26_SchemesMatchFactors ==
    TestDone =>
        LET c == lib_call
            z == TestZOf(c)
        IN  /\ lib_out.G_euler = CAdd(COne, z)
            /\ lib_out.Euler = CMul(lib_out.G_euler, c.U)
            /\ lib_out.RK4 = CMul(lib_out.G_rk4, c.U)
            /\ lib_out.Leap_Frog = CAdd(CMul(CMul(C(R(2), R(0)), z), c.U), c.U_prev)
            /\ \A k \in 1..2 :
                  LeapfrogPolynomial(z, lib_out.roots[k]) = C(R(0), R(0))
            /\ lib_out.stable =
                  (AbsLe1(lib_out.roots[1]) /\ AbsLe1(lib_out.roots[2]))

\* a complex z off both axes with a state off both axes, and RK4 not the
\* same as Euler
C26_ComplexStep ==
    /\ TestDone
    /\ lib_call.lam = C(Rat(1, 2), Rat(3, 2))
    /\ lib_call.dt = Rat(1, 2)
    /\ lib_call.U = C(R(2), R(-1))
    /\ lib_call.U_prev = C(R(1), R(0))
    /\ lib_out.RK4 # lib_out.Euler
    /\ lib_out.roots[1] = C(R(1), R(1))

--------------------------------------------------------------------------
(* Cancellation in the mission tab                                         *)

\* a cancellation was asked for before click k, and the session state was
\* not cleared since
CancelledBefore(k) ==
    \E j \in 1..(k - 1) :
        /\ gui_log[j].click = "cancel_gmat"
        /\ \A m \in (j + 1)..(k - 1) : gui_log[m].click # "restart"

--------------------------------------------------------------------------
(* The scheme of simulate_nbody                                            *)

\* simulate_nbody has called integrate_cauchy
SimCalled == lib_call.fn = "simulate_nbody" /\ lib_pc = "integrate_cauchy"

\* C30: simulate_nbody takes the module-level ESQUEMA_TEMPORAL only when
\* its argument scheme is None, an explicit scheme goes before it, and the
\* driver runs in two-step mode exactly when the scheme used is Leap_Frog.
C30_ExplicitSchemeOverrides ==
    SimCalled =>
        /\ lib_call.scheme = "None" => scheme = lib_call.ESQUEMA_TEMPORAL
        /\ lib_call.scheme # "None" => scheme = lib_call.scheme
        /\ is_leapfrog <=> (scheme = "Leap_Frog")
        /\ \A k \in 1..Len(calls) :
              calls[k].fn = (IF is_leapfrog /\ k = 1 THEN "Euler" ELSE scheme)

\* test_dummies with another module-level scheme: RK4 handed in while
\* ESQUEMA_TEMPORAL is Leap_Frog, and the run made in one-step mode
C30_ExplicitOverGlobal ==
    /\ SimCalled
    /\ lib_call.ESQUEMA_TEMPORAL = "Leap_Frog"
    /\ lib_call.scheme = "RK4"
    /\ pc = "returned"
    /\ Len(calls) = 1 /\ calls[1].fn = "RK4"
    /\ ~is_leapfrog

=========================================================================
